---- MODULE Spec2Model ----
(***************************************************************************)
(* State-machine model of the signal generation and risk-gated execution   *)
(* pipeline: PortfolioManager, RiskManager, LiveDataPipeline,              *)
(* PerformanceMonitor.checkAlert, WebSocketService and MarketDataService.  *)
(*                                                                         *)
(* Numbers.  The services compute on JavaScript numbers.  The model uses   *)
(* fixed point: prices are whole dollars, quantities are thousandths of a  *)
(* unit and money is thousandths of a dollar, so quantity * price is a     *)
(* money amount with no rescaling.  Divisions truncate.                    *)
(*                                                                         *)
(* Each service is a singleton with its own state; one specification per   *)
(* service steps that service and leaves the others alone, except that     *)
(* startPipeline and stopPipeline also start and stop the market-data feed.*)
(***************************************************************************)
EXTENDS Integers, Sequences, FiniteSets, TLC

VARIABLES
    \* PortfolioManager (one portfolio of the portfolios map)
    portfolio,          \* availableCash, totalValue, totalPnL, dailyPnL, positions
    trades,             \* trades.get(portfolio.id)
    alerts,             \* alerts.get(portfolio.id), newest first
    marketData,         \* marketData: symbol -> last tick price (NoPrice: no entry)
    nextPositionId,     \* stands for the fresh position id
    pmOps,              \* operations performed so far (bounds the exploration)
    pmResult,           \* the last operation and what it returned
    \* RiskManager
    riskParams,         \* riskParams
    rmPositions,        \* positions: signal id -> PositionRisk
    dailyPnL,           \* dailyPnL
    currentEquity,      \* currentEquity
    peakEquity,         \* peakEquity
    maxDrawdown,        \* maxDrawdown, in hundredths of a percent
    rmAlerts,           \* alerts, newest first
    rmAssessments,      \* passes of the 30 second assessment timer so far
    approvedSignals,    \* caller's record: signals whose latest evaluation approved
    onlyApprovedAdds,   \* caller's record: every addPosition so far was for such a signal
    onlyDirectAdds,     \* caller's record: every addPosition so far directly followed
                        \* the approving evaluation of its signal
    rmOps,              \* operations performed so far (bounds the exploration)
    rmResult,           \* the last operation and what it returned
    \* PerformanceMonitor
    monMetrics,         \* metrics, the monitored values
    monAlerts,          \* alerts: alertId -> PerformanceAlert
    monPc,              \* position of the monitoring loop
    monTicks,           \* passes of the monitoring loop so far (also the clock)
    \* WebSocketService
    ws,                 \* per exchange: sockets, connections entry, reconnectAttempts,
                        \* heartbeat timers, pending reconnect timers, last console line
    wsNotified,         \* the statuses handed to the connection listeners so far
    wsManualOps,        \* disconnect / reconnect calls so far (bounds the exploration)
    \* LiveDataPipeline
    isRunning,          \* isRunning
    signals,            \* signals: signal id -> PipelineSignal
    processingQueue,    \* processingQueue
    isProcessing,       \* isProcessing
    loops,              \* the processQueue calls that have not returned yet
    metrics,            \* metrics of the pipeline: signal counts and rates
    processedCount,     \* processedCount
    errorCount,         \* errorCount
    events,             \* number of events emitted, by type
    now,                \* Date.now(), in milliseconds
    clockDrifts,        \* times the clock moved between two reads inside one function
    rotationTimers,     \* setInterval timers of startSymbolRotation that are alive
    metricsTimers,      \* setInterval timers of startMetricsCollection that are alive
    symbolRotationIndex,\* symbolRotationIndex
    plOps,              \* calls and timer ticks from outside so far (bounds the exploration)
    \* MarketDataService
    mdRunning,          \* isRunning
    mdSubscribers,      \* subscribers: symbol -> callbacks, in subscription order
    mdCache,            \* dataCache: symbol -> snapshot (NoSnapshot: no entry)
    mdIntervals,        \* intervals: per symbol the map entry and the timers alive
    mdInFlight,         \* per symbol, the requests awaiting their response
    mdUpdateCount,      \* updateCount; a snapshot is named by its number
    mdCallbacks,        \* per callback: its subscription and what it was handed
    mdOps,              \* calls from outside so far (bounds the exploration)
    mdResult            \* the last operation

pmVars == <<portfolio, trades, alerts, marketData, nextPositionId, pmOps, pmResult>>

rmVars == <<riskParams, rmPositions, dailyPnL, currentEquity, peakEquity, maxDrawdown,
            rmAlerts, rmAssessments, approvedSignals, onlyApprovedAdds, onlyDirectAdds, rmOps, rmResult>>

monVars == <<monMetrics, monAlerts, monPc, monTicks>>

wsVars == <<ws, wsNotified, wsManualOps>>

plVars == <<isRunning, signals, processingQueue, isProcessing, loops, metrics,
            processedCount, errorCount, events, now, clockDrifts, rotationTimers,
            metricsTimers, symbolRotationIndex, plOps>>

mdVars == <<mdRunning, mdSubscribers, mdCache, mdIntervals, mdInFlight, mdUpdateCount,
           mdCallbacks, mdOps, mdResult>>

vars == <<pmVars, rmVars, monVars, wsVars, plVars, mdVars>>

----------------------------------------------------------------------------
(* Shared helpers *)

Min(a, b) == IF a < b THEN a ELSE b
Max(a, b) == IF a > b THEN a ELSE b
Abs(a) == IF a < 0 THEN 0 - a ELSE a

\* A splice that removes nothing
RemoveAt_Noop(s, i) == s

RemoveAt(s, i) == [k \in 1..(Len(s) - 1) |-> IF k < i THEN s[k] ELSE s[k + 1]]

Symbols == {"BTC/USDT", "ETH/USDT"}

----------------------------------------------------------------------------
(* PortfolioManager                                                        *)

\* Bounds of the portfolio model
MaxPortfolioOps == 4                \* operations on the portfolio in one behaviour
Prices == {42900, 43000, 46000, 47000}
EntryPrices == {45000}
InitialCashChoices == {22500}       \* initialCash of a portfolio a client creates
DefaultInitialCash == 100000        \* the 'Default Portfolio'

NoPrice == 0
MoneyScale == 1000                  \* money in thousandths of a dollar
FeeDivisor == 1000                  \* fees = value * 0.001
MaxPositionDollars == 10000         \* Max $10k per position
MaxAlerts == 100                    \* Keep only last 100 alerts

\* The signals handed to executeSignal.  Levels as calculateLevels derives them:
\* a stop below and a target above the entry for BUY, mirrored for SELL, and the
\* 0.99 / 1.01 band for HOLD.
LevelsFor(direction, entryPrice) ==
    IF direction = "BUY" THEN [stopLoss |-> entryPrice - 2000, takeProfit |-> entryPrice + 2000]
    ELSE IF direction = "SELL" THEN [stopLoss |-> entryPrice + 2000, takeProfit |-> entryPrice - 2000]
    ELSE [stopLoss |-> (entryPrice * 99) \div 100, takeProfit |-> (entryPrice * 101) \div 100]

PortfolioSignals ==
    { [symbol |-> s, direction |-> d, entryPrice |-> e,
       stopLoss |-> LevelsFor(d, e).stopLoss, takeProfit |-> LevelsFor(d, e).takeProfit] :
      s \in Symbols, d \in {"BUY", "SELL", "HOLD"}, e \in EntryPrices }

RECURSIVE SumMarketValue(_)
SumMarketValue(positions) ==
    IF positions = <<>> THEN 0
    ELSE positions[1].marketValue + SumMarketValue(Tail(positions))

\* updatePortfolioMetrics: totalValue = availableCash + sum of marketValue
updatePortfolioMetrics(pf) ==
    [pf EXCEPT !.totalValue = pf.availableCash + SumMarketValue(pf.positions)]

\* portfolio.positions.findIndex(p => p.id === positionId); 0 stands for -1
findIndex(positions, positionId) ==
    IF \E i \in 1..Len(positions) : positions[i].id = positionId
    THEN CHOOSE i \in 1..Len(positions) :
            /\ positions[i].id = positionId
            /\ \A j \in 1..(i - 1) : positions[j].id # positionId
    ELSE 0

NoResult == [op |-> "none", success |-> FALSE, error |-> "", realizedPnL |-> 0,
             symbol |-> "", price |-> 0, positionId |-> 0, closed |-> <<>>,
             portfolioKnown |-> TRUE, direction |-> ""]

\* addAlert: unshift, then keep the first 100
addAlert(as, alert) ==
    LET added == <<alert>> \o as
    IN IF Len(added) > MaxAlerts THEN SubSeq(added, 1, MaxAlerts) ELSE added

\* A close that ignores the side of the position
closePriceDiff_IgnoresSide(position, exitPrice) == exitPrice - position.entryPrice

\* closePosition: the price difference that realizedPnL is computed from
closePriceDiff(position, exitPrice) ==
    IF position.side = "LONG"
    THEN exitPrice - position.entryPrice
    ELSE position.entryPrice - exitPrice

\* closePosition on the world w = [portfolio, trades, alerts, closed]; closed
\* collects the Position objects this operation has closed, with the reason the
\* automatic close gave ("" for a client's close).
\* The function is async but holds no await: a call runs to its end at once.
\* A credit of the exit value without the fees
creditOnClose_Gross(exitValue, fees) == exitValue

\* portfolio.availableCash += (exitValue - fees)
creditOnClose(exitValue, fees) == exitValue - fees

\* A refusal that also files an alert
notFound_AddsAlert(w, error) ==
    [w |-> [w EXCEPT !.alerts = addAlert(@, [type |-> "SYSTEM", severity |-> "ERROR",
                                             symbol |-> "", reason |-> error,
                                             acknowledged |-> FALSE])],
     success |-> FALSE, error |-> error, realizedPnL |-> 0]

\* return { success: false, error }
notFound(w, error) == [w |-> w, success |-> FALSE, error |-> error, realizedPnL |-> 0]

closePosition(w, positionId, currentPrice) ==
    LET positionIndex == findIndex(w.portfolio.positions, positionId)
    IN IF positionIndex = 0
       THEN notFound(w, "Position not found")
       ELSE
        LET position == w.portfolio.positions[positionIndex]
            exitPrice == IF currentPrice # 0 THEN currentPrice ELSE position.currentPrice
            priceDiff == closePriceDiff(position, exitPrice)
            realizedPnL == priceDiff * position.quantity
            exitValue == position.quantity * exitPrice
            fees == exitValue \div FeeDivisor
            trade == [symbol |-> position.symbol,
                      side |-> IF position.side = "LONG" THEN "SELL" ELSE "BUY",
                      quantity |-> position.quantity, price |-> exitPrice,
                      value |-> exitValue, fees |-> fees, status |-> "FILLED",
                      positionId |-> position.id, opening |-> FALSE]
            closed == [position EXCEPT !.status = "CLOSED", !.realizedPnL = realizedPnL]
            pf == [w.portfolio EXCEPT
                     !.availableCash = @ + creditOnClose(exitValue, fees),
                     !.totalPnL = @ + realizedPnL,
                     !.dailyPnL = @ + realizedPnL,
                     !.positions = RemoveAt([@ EXCEPT ![positionIndex] = closed],
                                            positionIndex)]
        IN [w |-> [w EXCEPT !.portfolio = updatePortfolioMetrics(pf),
                            !.trades = Append(@, trade),
                            !.closed = Append(@, [position |-> closed, reason |-> ""])],
            success |-> TRUE, error |-> "", realizedPnL |-> realizedPnL]

\* The condition of checkStopLossTakeProfit; a level of 0 is falsy
shouldClose(position) ==
    \/ /\ position.stopLoss # 0
       /\ \/ (position.side = "LONG" /\ position.currentPrice <= position.stopLoss)
          \/ (position.side = "SHORT" /\ position.currentPrice >= position.stopLoss)
    \/ /\ position.takeProfit # 0
       /\ \/ (position.side = "LONG" /\ position.currentPrice >= position.takeProfit)
          \/ (position.side = "SHORT" /\ position.currentPrice <= position.takeProfit)

closeReason(position) ==
    IF position.currentPrice <= position.stopLoss THEN "Stop Loss" ELSE "Take Profit"

checkStopLossTakeProfit(w, position) ==
    IF position.status # "OPEN" THEN w
    ELSE IF shouldClose(position)
    THEN LET r == closePosition(w, position.id, position.currentPrice)
             reason == closeReason(position)
             alert == [type |-> "POSITION", severity |-> "INFO",
                       symbol |-> position.symbol, reason |-> reason,
                       acknowledged |-> FALSE]
         IN IF r.success
            THEN [r.w EXCEPT !.alerts = addAlert(@, alert),
                             !.closed[Len(r.w.closed)].reason = reason]
            ELSE [r.w EXCEPT !.alerts = addAlert(@, alert)]
    ELSE w

\* The loop "for (const position of portfolio.positions)" of updateMarketData.
\* The array iterator keeps an index into the live array: when closePosition
\* splices the current element out, the next element moves into its place and the
\* iterator steps over it.
RECURSIVE updateLoop(_, _, _, _)
updateLoop(w, i, symbol, price) ==
    IF i > Len(w.portfolio.positions) THEN w
    ELSE
      LET position == w.portfolio.positions[i]
      IN IF position.symbol # symbol THEN updateLoop(w, i + 1, symbol, price)
         ELSE
          LET priceDiff == IF position.side = "LONG"
                           THEN price - position.entryPrice
                           ELSE position.entryPrice - price
              updated == [position EXCEPT
                            !.currentPrice = price,
                            !.marketValue = position.quantity * price,
                            !.unrealizedPnL = priceDiff * position.quantity]
              w1 == [w EXCEPT !.portfolio.positions[i] = updated]
          IN updateLoop(checkStopLossTakeProfit(w1, updated), i + 1, symbol, price)

World == [portfolio |-> portfolio, trades |-> trades, alerts |-> alerts, closed |-> <<>>]

\* An update that forgets to recompute the metrics after the loop
updateMarketDataWorld_NoMetrics(w, symbol, price) ==
    LET w2 == updateLoop(w, 1, symbol, price)
    IN [w2 EXCEPT !.portfolio.totalValue = w.portfolio.totalValue]

\* updateMarketData(symbol, data)
updateMarketDataWorld(w, symbol, price) ==
    LET touched == \E i \in 1..Len(w.portfolio.positions) :
                      w.portfolio.positions[i].symbol = symbol
        w2 == updateLoop(w, 1, symbol, price)
    IN IF touched THEN [w2 EXCEPT !.portfolio = updatePortfolioMetrics(@)] ELSE w2

\* One more operation, within the bound of the exploration
PmStep == pmOps < MaxPortfolioOps /\ pmOps' = pmOps + 1 /\ UNCHANGED <<rmVars, monVars, wsVars, plVars, mdVars>>

UpdateMarketData(symbol, price) ==
    LET w == updateMarketDataWorld(World, symbol, price)
    IN /\ PmStep
       /\ marketData' = [marketData EXCEPT ![symbol] = price]
       /\ portfolio' = w.portfolio
       /\ trades' = w.trades
       /\ alerts' = w.alerts
       /\ pmResult' = [NoResult EXCEPT !.op = "updateMarketData", !.success = TRUE,
                                       !.symbol = symbol, !.price = price,
                                       !.closed = w.closed]
       /\ UNCHANGED nextPositionId

\* executeSignal(portfolioId, signal)
\* A debit of the cost without the fees
signalCost_NoFees(totalCost, fees) == totalCost

\* totalCost + fees
signalCost(totalCost, fees) == totalCost + fees

\* executeSignal(portfolioId, signal) on a known portfolio
executeSignal(w, signal) ==
    IF marketData[signal.symbol] = NoPrice
    THEN [w |-> w, success |-> FALSE, error |-> "Market data not available"]
    ELSE
     LET positionValue == Min(w.portfolio.availableCash \div 5, MaxPositionDollars * MoneyScale)
         quantity == positionValue \div signal.entryPrice
         totalCost == quantity * signal.entryPrice
         fees == totalCost \div FeeDivisor
         trade == [symbol |-> signal.symbol,
                   side |-> IF signal.direction = "BUY" THEN "BUY" ELSE "SELL",
                   quantity |-> quantity, price |-> signal.entryPrice,
                   value |-> totalCost, fees |-> fees, status |-> "FILLED",
                   positionId |-> nextPositionId, opening |-> TRUE]
         position == [id |-> nextPositionId, symbol |-> signal.symbol,
                      side |-> IF signal.direction = "BUY" THEN "LONG" ELSE "SHORT",
                      quantity |-> quantity, entryPrice |-> signal.entryPrice,
                      currentPrice |-> signal.entryPrice, marketValue |-> totalCost,
                      unrealizedPnL |-> 0, realizedPnL |-> 0,
                      stopLoss |-> signal.stopLoss, takeProfit |-> signal.takeProfit,
                      status |-> "OPEN", fees |-> fees]
     IN IF totalCost + fees > w.portfolio.availableCash
        THEN [w |-> w, success |-> FALSE, error |-> "Insufficient funds"]
        ELSE [w |-> [w EXCEPT
                       !.portfolio = updatePortfolioMetrics(
                           [@ EXCEPT !.availableCash = @ - signalCost(totalCost, fees),
                                     !.positions = Append(@, position)]),
                       !.trades = Append(@, trade)],
              success |-> TRUE, error |-> ""]

ExecuteSignal(signal) ==
    LET r == executeSignal(World, signal)
    IN /\ PmStep
       /\ portfolio' = r.w.portfolio
       /\ trades' = r.w.trades
       /\ nextPositionId' = IF r.success THEN nextPositionId + 1 ELSE nextPositionId
       /\ pmResult' = IF r.success
                      THEN [NoResult EXCEPT !.op = "executeSignal", !.success = TRUE,
                                            !.symbol = signal.symbol,
                                            !.price = signal.entryPrice,
                                            !.positionId = nextPositionId,
                                            !.direction = signal.direction]
                      ELSE [NoResult EXCEPT !.op = "executeSignal", !.error = r.error,
                                            !.symbol = signal.symbol,
                                            !.direction = signal.direction]
       /\ UNCHANGED <<alerts, marketData>>

\* closePosition(portfolioId, positionId, currentPrice?) called by a client
ClosePosition(known, positionId, currentPrice) ==
    LET r == IF known THEN closePosition(World, positionId, currentPrice)
             ELSE notFound(World, "Portfolio not found")
    IN /\ PmStep
       /\ portfolio' = r.w.portfolio
       /\ trades' = r.w.trades
       /\ alerts' = r.w.alerts
       /\ pmResult' = [NoResult EXCEPT !.op = "closePosition", !.success = r.success,
                                       !.error = r.error, !.realizedPnL = r.realizedPnL,
                                       !.positionId = positionId, !.price = currentPrice,
                                       !.closed = r.w.closed, !.portfolioKnown = known]
       /\ UNCHANGED <<marketData, nextPositionId>>

\* updateAllPortfolios, the 5 second timer
UpdateAllPortfolios ==
    /\ PmStep
    /\ portfolio' = updatePortfolioMetrics(portfolio)
    /\ pmResult' = [NoResult EXCEPT !.op = "updateAllPortfolios", !.success = TRUE]
    /\ UNCHANGED <<trades, alerts, marketData, nextPositionId>>

\* createPortfolio(name, initialCash): what it stores
NewPortfolio(initialCash) ==
    [availableCash |-> initialCash * MoneyScale, totalValue |-> initialCash * MoneyScale,
     totalPnL |-> 0, dailyPnL |-> 0, positions |-> <<>>]

\* createPortfolio(name, initialCash) called by a client before anything else
\* happens; from here on the model follows the new portfolio
CreatePortfolio(initialCash) ==
    /\ pmOps = 0
    /\ pmResult = NoResult
    /\ portfolio' = NewPortfolio(initialCash)
    /\ trades' = <<>>
    /\ alerts' = <<>>
    /\ pmResult' = [NoResult EXCEPT !.op = "createPortfolio", !.success = TRUE]
    /\ UNCHANGED <<marketData, nextPositionId, pmOps, rmVars, monVars, wsVars, plVars, mdVars>>

\* constructor: createPortfolio('Default Portfolio', 100000)
InitPortfolio ==
    /\ portfolio = NewPortfolio(DefaultInitialCash)
    /\ trades = <<>>
    /\ alerts = <<>>
    /\ marketData = [s \in Symbols |-> NoPrice]
    /\ nextPositionId = 1
    /\ pmOps = 0
    /\ pmResult = NoResult

NextPortfolio ==
    \/ \E cash \in InitialCashChoices : CreatePortfolio(cash)
    \/ \E signal \in PortfolioSignals : ExecuteSignal(signal)
    \/ \E id \in 1..nextPositionId, p \in Prices \cup {0} : ClosePosition(TRUE, id, p)
    \/ \E id \in 1..nextPositionId : ClosePosition(FALSE, id, 0)
    \/ \E s \in Symbols, p \in Prices : UpdateMarketData(s, p)
    \/ UpdateAllPortfolios


----------------------------------------------------------------------------
(* RiskManager                                                             *)

\* Bounds of the risk model
MaxRiskOps == 5                     \* operations on the risk manager in one behaviour
MaxSignalId == 4                    \* signal ids 1..MaxSignalId
OpenPositionsLimit == 1             \* maxOpenPositions set through updateRiskParameters
MaxAssessments == 2                 \* passes of the assessment timer in one behaviour
PnLChoices == {0 - 1100, 500}             \* realizedPnL handed to removePosition
RiskMarketData == { [change24h |-> 0, bids |-> 20], [change24h |-> 13, bids |-> 5] }

StartingEquity == 100000            \* peakEquity = currentEquity = 100000
AssumedShares == 100                \* "Assuming 100 shares"
DefaultMaxPositionSize == 10000
DefaultMaxDailyLoss == 2000
DefaultMaxDrawdown == 15
DefaultStopLossPercentage == 2
DefaultTakeProfitPercentage == 6
DefaultVolatilityThreshold == 25
ApprovalScoreLimit == 70            \* approved only if riskScore < 70

\* getDefaultRiskParameters, followed by updateRiskParameters({maxOpenPositions})
RiskParameters(maxOpen) ==
    [maxPositionSize |-> DefaultMaxPositionSize,
     maxDailyLoss |-> DefaultMaxDailyLoss,
     maxDrawdown |-> DefaultMaxDrawdown,
     stopLossPercentage |-> DefaultStopLossPercentage,
     takeProfitPercentage |-> DefaultTakeProfitPercentage,
     maxOpenPositions |-> maxOpen,
     volatilityThreshold |-> DefaultVolatilityThreshold]

\* The signals the risk manager is asked about: the id fixes symbol and entry price
\* (every fourth signal is oversized: entryPrice * 100 > maxPositionSize)
RiskSignal(id) ==
    [id |-> id,
     symbol |-> IF id % 2 = 1 THEN "BTC/USDT" ELSE "ETH/USDT",
     direction |-> IF id % 3 = 0 THEN "SELL" ELSE "BUY",
     entryPrice |-> IF id % 4 = 0 THEN 150 ELSE 50,
     riskScore |-> CASE id % 4 = 1 -> 45
                     [] id % 4 = 2 -> 85
                     [] id % 4 = 3 -> 75
                     [] OTHER -> 30]

SignalIds == 1..MaxSignalId

\* s.includes('BTC') / s.includes('ETH')
IncludesBTC(symbol) == symbol = "BTC/USDT"
IncludesETH(symbol) == symbol = "ETH/USDT"

TrackedCount == Cardinality(DOMAIN rmPositions)

\* calculateVolatility
calculateVolatility(md) == Abs(md.change24h) * 2

\* calculateCorrelationRisk(symbol) > correlationLimit (0.7), as
\* sameAssetClass / max(n, 1) > 7 / 10
correlationAboveLimit(positions, symbol) ==
    LET sameAssetClass == Cardinality({ id \in DOMAIN positions :
                             \/ (IncludesBTC(positions[id].symbol) /\ IncludesBTC(symbol))
                             \/ (IncludesETH(positions[id].symbol) /\ IncludesETH(symbol)) })
        n == Cardinality(DOMAIN positions)
    IN sameAssetClass * 10 > 7 * Max(n, 1)

\* assessLiquidityRisk(marketData) > 0.5
liquidityAboveLimit(md) == md.bids < 10

\* The open-position check with > in place of >=
positionCountViolated_OffByOne(count, params) == count > params.maxOpenPositions

\* evaluateSignalRisk: "Check maximum open positions"
positionCountViolated(count, params) == count >= params.maxOpenPositions

\* The daily-loss check with the sign of the limit lost
dailyLossViolated_WrongSign(pnl, params) == pnl > params.maxDailyLoss

\* evaluateSignalRisk: "Check daily loss limits"
dailyLossViolated(pnl, params) == pnl < 0 - params.maxDailyLoss

\* evaluateSignalRisk(signal, marketData)
\* approved && riskScore < 70
approvalDecision_ScoreOnly(approved, riskScore) == riskScore < ApprovalScoreLimit

approvalDecision(approved, riskScore) == approved /\ riskScore < ApprovalScoreLimit

evaluateSignalRisk(signal, md, params, positions, pnl) ==
    LET sizeBad == signal.entryPrice * AssumedShares > params.maxPositionSize
        lossBad == dailyLossViolated(pnl, params)
        countBad == positionCountViolated(Cardinality(DOMAIN positions), params)
        volBad == calculateVolatility(md) > params.volatilityThreshold
        corrBad == correlationAboveLimit(positions, signal.symbol)
        liqBad == liquidityAboveLimit(md)
        riskScore == (IF sizeBad THEN 30 ELSE 0) + (IF lossBad THEN 50 ELSE 0)
                     + (IF countBad THEN 25 ELSE 0) + (IF volBad THEN 20 ELSE 0)
                     + (IF corrBad THEN 15 ELSE 0) + (IF liqBad THEN 10 ELSE 0)
        reasons == (IF sizeBad THEN {"Position size exceeds maximum limit"} ELSE {})
                   \cup (IF lossBad THEN {"Daily loss limit reached"} ELSE {})
                   \cup (IF countBad THEN {"Maximum open positions reached"} ELSE {})
                   \cup (IF volBad THEN {"Market volatility too high"} ELSE {})
                   \cup (IF corrBad THEN {"High correlation with existing positions"} ELSE {})
                   \cup (IF liqBad THEN {"Insufficient market liquidity"} ELSE {})
        approved == ~sizeBad /\ ~lossBad /\ ~countBad
        stopLoss == IF signal.direction = "BUY"
                    THEN (signal.entryPrice * (100 - params.stopLossPercentage)) \div 100
                    ELSE (signal.entryPrice * (100 + params.stopLossPercentage)) \div 100
        takeProfit == IF signal.direction = "BUY"
                      THEN (signal.entryPrice * (100 + params.takeProfitPercentage)) \div 100
                      ELSE (signal.entryPrice * (100 - params.takeProfitPercentage)) \div 100
    IN [approved |-> approvalDecision(approved, riskScore),
        riskScore |-> riskScore,
        reasons |-> reasons,
        adjustments |-> [stopLoss |-> stopLoss, takeProfit |-> takeProfit,
                         riskScore |-> Min(riskScore, 100)]]

NoRiskResult == [op |-> "none", signalId |-> 0, approved |-> FALSE, riskScore |-> 0,
                 reasons |-> {}, realizedPnL |-> 0, portfolioRiskScore |-> 0,
                 alerted |-> {}]

\* One more operation, within the bound of the exploration
RmStep == rmOps < MaxRiskOps /\ rmOps' = rmOps + 1 /\ UNCHANGED <<pmVars, monVars, wsVars, plVars, mdVars>>

EvaluateSignalRisk(signal, md) ==
    LET r == evaluateSignalRisk(signal, md, riskParams, rmPositions, dailyPnL)
    IN /\ RmStep
       /\ rmResult' = [NoRiskResult EXCEPT !.op = "evaluateSignalRisk",
                                           !.signalId = signal.id,
                                           !.approved = r.approved,
                                           !.riskScore = r.riskScore,
                                           !.reasons = r.reasons]
       /\ approvedSignals' = IF r.approved THEN approvedSignals \cup {signal.id}
                             ELSE approvedSignals \ {signal.id}
       /\ UNCHANGED <<riskParams, rmPositions, dailyPnL, currentEquity, peakEquity,
                      maxDrawdown, rmAlerts, rmAssessments, onlyApprovedAdds,
                      onlyDirectAdds>>

\* addPosition(signal): positions.set(signal.id, position)
AddPosition(signal) ==
    /\ RmStep
    /\ rmPositions' = [id \in DOMAIN rmPositions \cup {signal.id} |->
                         IF id = signal.id
                         THEN [symbol |-> signal.symbol,
                               positionSize |-> signal.entryPrice * AssumedShares,
                               unrealizedPnL |-> 0,
                               riskScore |-> signal.riskScore,
                               currentPrice |-> signal.entryPrice]
                         ELSE rmPositions[id]]
    /\ onlyApprovedAdds' = (onlyApprovedAdds /\ signal.id \in approvedSignals)
    /\ onlyDirectAdds' = (onlyDirectAdds /\ rmResult.op = "evaluateSignalRisk"
                            /\ rmResult.signalId = signal.id /\ rmResult.approved)
    /\ approvedSignals' = approvedSignals \ {signal.id}
    /\ rmResult' = [NoRiskResult EXCEPT !.op = "addPosition", !.signalId = signal.id]
    /\ UNCHANGED <<riskParams, dailyPnL, currentEquity, peakEquity, maxDrawdown,
                   rmAlerts, rmAssessments>>

\* removePosition(signalId, realizedPnL)
RemovePosition(signalId, realizedPnL) ==
    LET equity == currentEquity + realizedPnL
        peak == IF equity > peakEquity THEN equity ELSE peakEquity
        currentDrawdown == ((peak - equity) * 10000) \div peak
    IN /\ RmStep
       /\ rmPositions' = [id \in DOMAIN rmPositions \ {signalId} |-> rmPositions[id]]
       /\ dailyPnL' = dailyPnL + realizedPnL
       /\ currentEquity' = equity
       /\ peakEquity' = peak
       /\ maxDrawdown' = IF currentDrawdown > maxDrawdown THEN currentDrawdown ELSE maxDrawdown
       /\ rmResult' = [NoRiskResult EXCEPT !.op = "removePosition", !.signalId = signalId,
                                           !.realizedPnL = realizedPnL]
       /\ UNCHANGED <<riskParams, rmAlerts, rmAssessments, approvedSignals,
                      onlyApprovedAdds, onlyDirectAdds>>

\* resetDailyMetrics, the 24 hour timer
ResetDailyMetrics ==
    /\ RmStep
    /\ dailyPnL' = 0
    /\ rmResult' = [NoRiskResult EXCEPT !.op = "resetDailyMetrics"]
    /\ UNCHANGED <<riskParams, rmPositions, currentEquity, peakEquity, maxDrawdown,
                   rmAlerts, rmAssessments, approvedSignals, onlyApprovedAdds,
                   onlyDirectAdds>>

\* Keep only last 100 alerts
AlertLimit == 100

NoRiskAlert == [type |-> "PORTFOLIO", severity |-> "MEDIUM", message |-> "",
                symbol |-> "", action |-> "MONITOR"]

\* generateAlert(alertData): alerts.unshift(alert), then the first 100 are kept
generateAlert(alertList, alertData) ==
    LET all == <<alertData>> \o alertList
    IN SubSeq(all, 1, Min(Len(all), AlertLimit))

RECURSIVE SumRiskScore(_, _)
SumRiskScore(positions, ids) ==
    IF ids = {} THEN 0
    ELSE LET id == CHOOSE x \in ids : TRUE
         IN positions[id].riskScore + SumRiskScore(positions, ids \ {id})

RECURSIVE SumPositionSize(_, _)
SumPositionSize(positions, ids) ==
    IF ids = {} THEN 0
    ELSE LET id == CHOOSE x \in ids : TRUE
         IN positions[id].positionSize + SumPositionSize(positions, ids \ {id})

\* calculateOverallRiskScore, in thousandths of a point (each term rounded down)
calculateOverallRiskScore(positions, pnl, drawdown, params) ==
    LET n == Cardinality(DOMAIN positions)
    IN IF n = 0 THEN 0
       ELSE Min((SumRiskScore(positions, DOMAIN positions) * 1000) \div n
                + (IF pnl < 0 THEN (Abs(pnl) * 30 * 1000) \div params.maxDailyLoss ELSE 0)
                + (drawdown * 25 * 10) \div params.maxDrawdown
                + (n * 15 * 1000) \div params.maxOpenPositions,
                100 * 1000)

\* calculateConcentrationRisk() > 0.4, as maxPosition / totalExposure > 4 / 10
concentrationAboveLimit(positions) ==
    /\ DOMAIN positions # {}
    /\ \E id \in DOMAIN positions :
          /\ \A other \in DOMAIN positions :
                positions[other].positionSize <= positions[id].positionSize
          /\ positions[id].positionSize * 10 > 4 * SumPositionSize(positions, DOMAIN positions)

\* dailyPnL < -maxDailyLoss * 0.8
dailyLossAlertDue(pnl, params) == pnl * 10 < 0 - params.maxDailyLoss * 8

\* currentDrawdown > maxDrawdown * 0.8, with
\* currentDrawdown = (peakEquity - currentEquity) / peakEquity * 100
drawdownAlertDue(peak, equity, params) == (peak - equity) * 1000 > params.maxDrawdown * 8 * peak

drawdownAboveLimit(peak, equity, params) == (peak - equity) * 100 > params.maxDrawdown * peak

\* checkRiskAlerts(portfolioRisk)
checkRiskAlerts(alertList, positions, pnl, peak, equity, params) ==
    LET a1 == IF dailyLossAlertDue(pnl, params)
              THEN generateAlert(alertList,
                       [NoRiskAlert EXCEPT
                           !.severity = IF dailyLossViolated(pnl, params)
                                        THEN "CRITICAL" ELSE "HIGH",
                           !.message = "Daily loss approaching limit",
                           !.action = IF dailyLossViolated(pnl, params)
                                      THEN "HALT" ELSE "MONITOR"])
              ELSE alertList
        a2 == IF drawdownAlertDue(peak, equity, params)
              THEN generateAlert(a1,
                       [NoRiskAlert EXCEPT
                           !.severity = IF drawdownAboveLimit(peak, equity, params)
                                        THEN "CRITICAL" ELSE "HIGH",
                           !.message = "Drawdown approaching limit",
                           !.action = IF drawdownAboveLimit(peak, equity, params)
                                      THEN "REDUCE" ELSE "MONITOR"])
              ELSE a1
    IN IF concentrationAboveLimit(positions)
       THEN generateAlert(a2, [NoRiskAlert EXCEPT
                                  !.message = "High concentration risk detected"])
       ELSE a2

\* highRiskPositions: the tracked positions with riskScore > 70
highRiskPositions(positions) == { id \in DOMAIN positions : positions[id].riskScore > 70 }

\* highRiskPositions[0] after the descending sort
highestRiskPosition(positions) ==
    CHOOSE id \in highRiskPositions(positions) :
        \A other \in highRiskPositions(positions) :
            positions[other].riskScore <= positions[id].riskScore

\* autoManagePositions(portfolioRisk): the tracked positions are left as they are
autoManagePositions(alertList, positions, portfolioRiskScore) ==
    IF /\ portfolioRiskScore > 80 * 1000
       /\ portfolioRiskScore > 90 * 1000
       /\ highRiskPositions(positions) # {}
    THEN generateAlert(alertList,
             [NoRiskAlert EXCEPT
                 !.type = "POSITION",
                 !.severity = "CRITICAL",
                 !.message = "Auto-closing high risk position",
                 !.symbol = positions[highestRiskPosition(positions)].symbol,
                 !.action = "CLOSE"])
    ELSE alertList

\* performRiskAssessment, the 30 second timer
PerformRiskAssessment ==
    LET riskScore == calculateOverallRiskScore(rmPositions, dailyPnL, maxDrawdown, riskParams)
        checked == checkRiskAlerts(rmAlerts, rmPositions, dailyPnL, peakEquity,
                                   currentEquity, riskParams)
        managed == autoManagePositions(checked, rmPositions, riskScore)
    IN /\ RmStep
       /\ rmAssessments < MaxAssessments
       /\ rmAssessments' = rmAssessments + 1
       /\ rmAlerts' = managed
       /\ rmResult' = [NoRiskResult EXCEPT
                          !.op = "performRiskAssessment",
                          !.portfolioRiskScore = riskScore,
                          !.alerted = { managed[i].message :
                                           i \in 1..(Len(managed) - Len(rmAlerts)) }]
       /\ UNCHANGED <<riskParams, rmPositions, dailyPnL, currentEquity, peakEquity,
                      maxDrawdown, approvedSignals, onlyApprovedAdds, onlyDirectAdds>>

InitRisk ==
    /\ riskParams = RiskParameters(OpenPositionsLimit)
    /\ rmPositions = <<>>
    /\ dailyPnL = 0
    /\ currentEquity = StartingEquity
    /\ peakEquity = StartingEquity
    /\ maxDrawdown = 0
    /\ rmAlerts = <<>>
    /\ rmAssessments = 0
    /\ approvedSignals = {}
    /\ onlyApprovedAdds = TRUE
    /\ onlyDirectAdds = TRUE
    /\ rmOps = 0
    /\ rmResult = NoRiskResult

NextRisk ==
    \/ \E id \in SignalIds, md \in RiskMarketData : EvaluateSignalRisk(RiskSignal(id), md)
    \/ \E id \in SignalIds : AddPosition(RiskSignal(id))
    \/ \E id \in SignalIds, pnl \in PnLChoices : RemovePosition(id, pnl)
    \/ ResetDailyMetrics
    \/ PerformRiskAssessment

----------------------------------------------------------------------------
(* PerformanceMonitor: the alert checks of the monitoring loop             *)

\* Bound of the monitor model
MaxMonitorTicks == 4                \* passes of the monitoring loop in one behaviour

\* category.toLowerCase()
toLowerCase(category) ==
    CASE category = "SYSTEM" -> "system"
      [] category = "NETWORK" -> "network"
      [] category = "TRADING" -> "trading"
      [] category = "PIPELINE" -> "pipeline"

\* `${category.toLowerCase()}_${id}`
alertId(category, id) == <<toLowerCase(category), "_", id>>

\* thresholds
thresholds ==
    [cpuUsage |-> 80, memoryUsage |-> 85, networkLatency |-> 1000, errorRate |-> 5,
     signalLatency |-> 5000, queueLength |-> 100, winRate |-> 40, maxDrawdown |-> 20]

\* The checkAlert calls of checkSystemAlerts, checkTradingAlerts and
\* checkPipelineAlerts, in the order checkAlerts makes them
Checks ==
    << [id |-> "cpu_usage", category |-> "SYSTEM", metric |-> "cpuUsage", reverse |-> FALSE],
       [id |-> "memory_usage", category |-> "SYSTEM", metric |-> "memoryUsage", reverse |-> FALSE],
       [id |-> "network_latency", category |-> "NETWORK", metric |-> "networkLatency", reverse |-> FALSE],
       [id |-> "error_rate", category |-> "SYSTEM", metric |-> "errorRate", reverse |-> FALSE],
       [id |-> "win_rate", category |-> "TRADING", metric |-> "winRate", reverse |-> TRUE],
       [id |-> "max_drawdown", category |-> "TRADING", metric |-> "maxDrawdown", reverse |-> FALSE],
       [id |-> "signal_latency", category |-> "PIPELINE", metric |-> "signalLatency", reverse |-> FALSE],
       [id |-> "queue_length", category |-> "PIPELINE", metric |-> "queueLength", reverse |-> FALSE] >>

MetricNames == DOMAIN thresholds

CheckOf(metric) == CHOOSE i \in DOMAIN Checks : Checks[i].metric = metric

AlertIdOf(metric) == alertId(Checks[CheckOf(metric)].category, Checks[CheckOf(metric)].id)

AlertIds == { AlertIdOf(m) : m \in MetricNames }

\* The values collectMetrics may produce: three values move around their
\* thresholds, the others stay at their initial value
MetricChoices ==
    [cpuUsage : {50, 80, 90, 170}, memoryUsage : {0}, networkLatency : {0}, errorRate : {0},
     signalLatency : {0}, queueLength : {50, 250}, winRate : {30, 40, 50}, maxDrawdown : {0}]

NoAlert == [exists |-> FALSE]

\* checkAlert: isTriggered
isTriggered(value, threshold, reverse) ==
    IF reverse THEN value < threshold ELSE value > threshold

\* getAlertType: ratio >= 2 CRITICAL, ratio >= 1.5 ERROR, else WARNING
getAlertType(value, threshold, reverse) ==
    LET num == IF reverse THEN threshold ELSE value
        den == IF reverse THEN value ELSE threshold
    IN IF num >= 2 * den THEN "CRITICAL"
       ELSE IF 2 * num >= 3 * den THEN "ERROR"
       ELSE "WARNING"

\* checkAlert that stores a fresh alert on every triggered check
checkAlert_AlwaysSet(as, check, value, clock) ==
    LET threshold == thresholds[check.metric]
        key == alertId(check.category, check.id)
    IN IF isTriggered(value, threshold, check.reverse)
       THEN [as EXCEPT ![key] = [exists |-> TRUE, id |-> key,
                                 type |-> getAlertType(value, threshold, check.reverse),
                                 category |-> check.category, timestamp |-> clock,
                                 value |-> value, threshold |-> threshold,
                                 resolved |-> FALSE]]
       ELSE IF as[key].exists /\ ~as[key].resolved
            THEN [as EXCEPT ![key].resolved = TRUE]
            ELSE as

\* checkAlert(id, category, message, value, threshold, unit, reverse)
checkAlert(as, check, value, clock) ==
    LET threshold == thresholds[check.metric]
        key == alertId(check.category, check.id)
    IN IF isTriggered(value, threshold, check.reverse)
       THEN IF ~as[key].exists
            THEN [as EXCEPT ![key] = [exists |-> TRUE, id |-> key,
                                      type |-> getAlertType(value, threshold, check.reverse),
                                      category |-> check.category, timestamp |-> clock,
                                      value |-> value, threshold |-> threshold,
                                      resolved |-> FALSE]]
            ELSE as
       ELSE IF as[key].exists /\ ~as[key].resolved
            THEN [as EXCEPT ![key].resolved = TRUE]
            ELSE as

\* checkAlerts: every check in turn, on the values just collected
RECURSIVE checkAlertsFrom(_, _, _, _)
checkAlertsFrom(as, i, values, clock) ==
    IF i > Len(Checks) THEN as
    ELSE checkAlertsFrom(checkAlert(as, Checks[i], values[Checks[i].metric], clock),
                         i + 1, values, clock)

\* monitoringLoop: await this.collectMetrics()
CollectMetrics(values) ==
    /\ monPc = "collectMetrics"
    /\ monTicks < MaxMonitorTicks
    /\ monMetrics' = values
    /\ monPc' = "checkAlerts"
    /\ UNCHANGED <<monAlerts, monTicks, pmVars, rmVars, wsVars, plVars, mdVars>>

\* monitoringLoop: await this.checkAlerts(), then the snapshot and the delay
CheckAlerts ==
    /\ monPc = "checkAlerts"
    /\ monAlerts' = checkAlertsFrom(monAlerts, 1, monMetrics, monTicks + 1)
    /\ monTicks' = monTicks + 1
    /\ monPc' = "collectMetrics"
    /\ UNCHANGED <<monMetrics, pmVars, rmVars, wsVars, plVars, mdVars>>

InitMonitor ==
    /\ monMetrics = [m \in MetricNames |-> 0]
    /\ monAlerts = [k \in AlertIds |-> NoAlert]
    /\ monPc = "collectMetrics"
    /\ monTicks = 0

NextMonitor ==
    \/ \E values \in MetricChoices : CollectMetrics(values)
    \/ CheckAlerts

----------------------------------------------------------------------------
(* WebSocketService: connections and reconnection                          *)

\* Bounds of the WebSocket model
MaxSockets == 2                     \* sockets created in one behaviour
MaxManualOps == 1                   \* disconnect / reconnect calls in one behaviour

Exchanges == {"binance", "coinbase"}

maxReconnectAttempts == 10          \* maxReconnectAttempts of every config

\* What the service holds for one exchange right after the field initialisers
NewExchange ==
    [started |-> FALSE,             \* the constructor's connect(exchange) has run
     sockets |-> <<>>,              \* readyState of every WebSocket created so far
     connection |-> 0,              \* connections.get(exchange): index into sockets, 0 = none
     reconnectAttempts |-> 0,       \* reconnectAttempts.get(exchange) || 0
     heartbeatEntry |-> FALSE,      \* heartbeatIntervals.has(exchange)
     liveHeartbeats |-> 0,          \* setInterval timers not cleared
     autoTimers |-> 0,              \* pending setTimeout of attemptReconnection
     manualTimers |-> 0,            \* pending setTimeout of reconnect()
     scheduledSinceOpen |-> 0,      \* reconnections scheduled since the last onopen
     log |-> "none"]                \* the last console line about the exchange

\* attemptReconnection with <= in place of <
attemptReconnection_Inclusive(x) ==
    IF x.reconnectAttempts <= maxReconnectAttempts
    THEN [x EXCEPT !.reconnectAttempts = @ + 1, !.autoTimers = @ + 1,
                   !.scheduledSinceOpen = @ + 1, !.log = "Attempting to reconnect"]
    ELSE [x EXCEPT !.log = "Max reconnection attempts reached"]

\* attemptReconnection(exchange)
attemptReconnection(x) ==
    IF x.reconnectAttempts < maxReconnectAttempts
    THEN [x EXCEPT !.reconnectAttempts = @ + 1, !.autoTimers = @ + 1,
                   !.scheduledSinceOpen = @ + 1, !.log = "Attempting to reconnect"]
    ELSE [x EXCEPT !.log = "Max reconnection attempts reached"]

\* connect(exchange): new WebSocket(url) either throws, and the catch block calls
\* attemptReconnection, or yields a socket that is CONNECTING
connect(x, throws) ==
    IF throws THEN attemptReconnection([x EXCEPT !.log = "Failed to connect"])
    ELSE [x EXCEPT !.sockets = Append(@, "CONNECTING")]

\* startHeartbeat(exchange): a new interval, stored over whatever entry is there
startHeartbeat(x) == [x EXCEPT !.heartbeatEntry = TRUE, !.liveHeartbeats = @ + 1]

\* stopHeartbeat(exchange)
stopHeartbeat(x) ==
    IF x.heartbeatEntry
    THEN [x EXCEPT !.heartbeatEntry = FALSE, !.liveHeartbeats = @ - 1]
    ELSE x

\* ws.onopen of socket k
onopen(x, k) ==
    startHeartbeat([x EXCEPT !.sockets[k] = "OPEN", !.connection = k,
                             !.reconnectAttempts = 0, !.scheduledSinceOpen = 0,
                             !.log = "Connected"])

\* ws.onclose of socket k
onclose(x, k) ==
    attemptReconnection(stopHeartbeat([x EXCEPT !.sockets[k] = "CLOSED", !.connection = 0,
                                                !.log = "Disconnected"]))

\* disconnect(exchange)
disconnect(x) ==
    IF x.connection # 0
    THEN stopHeartbeat([x EXCEPT !.sockets[x.connection] = "CLOSING", !.connection = 0])
    ELSE x

RECURSIVE SocketCount(_)
SocketCount(es) ==
    IF es = {} THEN 0
    ELSE LET e == CHOOSE x \in es : TRUE
         IN Len(ws[e].sockets) + SocketCount(es \ {e})

\* A connect may be made: it throws, or there is room for one more socket
CanConnect(e, throws) == throws \/ SocketCount(Exchanges) < MaxSockets

\* constructor: initialize<Exchange>Connection ends in connect(exchange)
InitializeConnection(e, throws) ==
    /\ ~ws[e].started
    /\ CanConnect(e, throws)
    /\ ws' = [ws EXCEPT ![e] = connect([@ EXCEPT !.started = TRUE], throws)]
    /\ UNCHANGED <<wsNotified, wsManualOps, pmVars, rmVars, monVars, plVars, mdVars>>

\* The setTimeout callback of attemptReconnection fires
ReconnectTimerFires(e, throws) ==
    /\ ws[e].autoTimers > 0
    /\ CanConnect(e, throws)
    /\ ws' = [ws EXCEPT ![e] = connect([@ EXCEPT !.autoTimers = @ - 1], throws)]
    /\ UNCHANGED <<wsNotified, wsManualOps, pmVars, rmVars, monVars, plVars, mdVars>>

\* The setTimeout callback of reconnect(exchange) fires
ManualTimerFires(e, throws) ==
    /\ ws[e].manualTimers > 0
    /\ CanConnect(e, throws)
    /\ ws' = [ws EXCEPT ![e] = connect([@ EXCEPT !.manualTimers = @ - 1], throws)]
    /\ UNCHANGED <<wsNotified, wsManualOps, pmVars, rmVars, monVars, plVars, mdVars>>

\* A connecting socket opens
SocketOpens(e, k) ==
    /\ k \in DOMAIN ws[e].sockets
    /\ ws[e].sockets[k] = "CONNECTING"
    /\ ws' = [ws EXCEPT ![e] = onopen(@, k)]
    /\ wsNotified' = wsNotified \cup {[exchange |-> e, connected |-> TRUE]}
    /\ UNCHANGED <<wsManualOps, pmVars, rmVars, monVars, plVars, mdVars>>

\* A socket closes: the connection failed, the peer closed it, or close() was called
SocketCloses(e, k) ==
    /\ k \in DOMAIN ws[e].sockets
    /\ ws[e].sockets[k] \in {"CONNECTING", "OPEN", "CLOSING"}
    /\ ws' = [ws EXCEPT ![e] = onclose(@, k)]
    /\ wsNotified' = wsNotified \cup {[exchange |-> e, connected |-> FALSE]}
    /\ UNCHANGED <<wsManualOps, pmVars, rmVars, monVars, plVars, mdVars>>

\* disconnect(exchange)
Disconnect(e) ==
    /\ wsManualOps < MaxManualOps
    /\ wsManualOps' = wsManualOps + 1
    /\ ws' = [ws EXCEPT ![e] = disconnect(@)]
    /\ UNCHANGED <<wsNotified, pmVars, rmVars, monVars, plVars, mdVars>>

\* reconnect(exchange)
Reconnect(e) ==
    /\ wsManualOps < MaxManualOps
    /\ wsManualOps' = wsManualOps + 1
    /\ ws' = [ws EXCEPT ![e] = [disconnect(@) EXCEPT !.manualTimers = @ + 1]]
    /\ UNCHANGED <<wsNotified, pmVars, rmVars, monVars, plVars, mdVars>>

InitWebSocket ==
    /\ ws = [e \in Exchanges |-> NewExchange]
    /\ wsNotified = {}
    /\ wsManualOps = 0

NextWebSocket ==
    \/ \E e \in Exchanges, throws \in BOOLEAN : InitializeConnection(e, throws)
    \/ \E e \in Exchanges, throws \in BOOLEAN : ReconnectTimerFires(e, throws)
    \/ \E e \in Exchanges, throws \in BOOLEAN : ManualTimerFires(e, throws)
    \/ \E e \in Exchanges, k \in 1..MaxSockets : SocketOpens(e, k)
    \/ \E e \in Exchanges, k \in 1..MaxSockets : SocketCloses(e, k)
    \/ \E e \in Exchanges : Disconnect(e)
    \/ \E e \in Exchanges : Reconnect(e)

----------------------------------------------------------------------------
(* MarketDataService: subscriptions, snapshot cache and polling timers     *)

\* Bounds of the market-data model
MaxFeedOps == 3                     \* calls from outside in one behaviour
MaxFeedUpdates == 2                 \* snapshots stored in one behaviour
MaxInFlight == 1                    \* requests of one symbol awaiting their response
MaxCallbacks == 2                   \* distinct callbacks handed to subscribe

CallbackIds == 1..MaxCallbacks

\* What a callback does with a snapshot: "plain" only takes it, "once" also
\* calls the unsubscribe handle of its own subscription when it holds one.
CallbackKinds == {"plain", "once"}

NoSnapshot == 0
NoSubscription == [symbol |-> "", kind |-> "plain", handle |-> FALSE,
                   handleCalled |-> FALSE, received |-> 0, last |-> NoSnapshot]
NoFeedResult == [op |-> "none", symbol |-> "", callback |-> 0]

\* The service's own state, as one record the operators below transform
Feed == [running |-> mdRunning, subscribers |-> mdSubscribers, cache |-> mdCache,
         intervals |-> mdIntervals, inFlight |-> mdInFlight,
         updateCount |-> mdUpdateCount, callbacks |-> mdCallbacks]

\* callbacks.indexOf(callback): first position, 0 when absent
indexOf(callbacks, c) ==
    IF \E i \in 1..Len(callbacks) : callbacks[i] = c
    THEN CHOOSE i \in 1..Len(callbacks) :
            /\ callbacks[i] = c
            /\ \A j \in 1..(i - 1) : callbacks[j] # c
    ELSE 0

\* The closure returned by subscribe
unsubscribe(f, c) ==
    LET symbol == f.callbacks[c].symbol
        list == f.subscribers[symbol]
        index == indexOf(list, c)
    IN [f EXCEPT !.subscribers[symbol] = IF index > 0 THEN RemoveAt(list, index) ELSE list,
                 !.callbacks[c].handleCalled = TRUE]

\* callback(data), for the callbacks the model hands to subscribe
invoke(f, c, data) ==
    LET got == [f EXCEPT !.callbacks[c].received = @ + 1,
                         !.callbacks[c].last = data]
    IN IF got.callbacks[c].kind = "once" /\ got.callbacks[c].handle
       THEN unsubscribe(got, c)
       ELSE got

\* callbacks.forEach(...) of notifySubscribers: the indices up to the length at
\* the start are visited, each against the array as it is by then.
RECURSIVE notifyLoop(_, _, _, _, _)
notifyLoop(f, symbol, data, i, len) ==
    IF i > len THEN f
    ELSE IF i > Len(f.subscribers[symbol])
         THEN notifyLoop(f, symbol, data, i + 1, len)
         ELSE notifyLoop(invoke(f, f.subscribers[symbol][i], data), symbol, data, i + 1, len)

notifySubscribers(f, symbol, data) ==
    notifyLoop(f, symbol, data, 1, Len(f.subscribers[symbol]))

\* subscribe(symbol, callback), up to the return of the handle
subscribe(f, symbol, c, kind) ==
    LET pushed == [f EXCEPT !.subscribers[symbol] = Append(@, c),
                            !.callbacks[c] = [NoSubscription EXCEPT !.symbol = symbol,
                                                                    !.kind = kind]]
        currentData == pushed.cache[symbol]
        replayed == IF currentData # NoSnapshot THEN invoke(pushed, c, currentData)
                    ELSE pushed
    IN [replayed EXCEPT !.callbacks[c].handle = TRUE]

\* startRealDataStreaming(symbol): one request at once, one polling timer
startRealDataStreaming(f, symbol) ==
    [f EXCEPT !.inFlight[symbol] = @ + 1,
              !.intervals[symbol] = [entry |-> TRUE, live |-> @.live + 1]]

RECURSIVE startSymbols(_, _)
startSymbols(f, todo) ==
    IF todo = {} THEN f
    ELSE LET symbol == CHOOSE s \in todo : TRUE
         IN startSymbols(startRealDataStreaming(f, symbol), todo \ {symbol})

startLiveData(f) ==
    IF f.running THEN f
    ELSE startSymbols([f EXCEPT !.running = TRUE], Symbols)

\* clearInterval on the timer the map holds for the symbol, then the entry goes
clearEntry(entry) ==
    IF entry.entry THEN [entry |-> FALSE, live |-> entry.live - 1] ELSE entry

stopLiveData(f) ==
    [f EXCEPT !.running = FALSE,
              !.intervals = [s \in Symbols |-> clearEntry(f.intervals[s])]]

stopStreaming(f, symbol) ==
    [f EXCEPT !.intervals[symbol] = clearEntry(@),
              !.cache[symbol] = NoSnapshot,
              !.subscribers[symbol] = <<>>]

\* fetchRealMarketData(symbol) from the response on.  outcome: "ok", or the
\* request failed ("network"), the status was not ok ("http"), the body did not
\* parse ("parse"), or it held no entry for the coin ("nodata").
FetchOutcomes == {"ok", "network", "http", "parse", "nodata"}

fetchCompletes_FailureStops(f, symbol, outcome) ==
    LET landed == [f EXCEPT !.inFlight[symbol] = @ - 1]
    IN IF outcome = "ok"
       THEN LET data == landed.updateCount + 1
                cached == [landed EXCEPT !.cache[symbol] = data]
                notified == notifySubscribers(cached, symbol, data)
            IN [notified EXCEPT !.updateCount = @ + 1]
       ELSE [landed EXCEPT !.intervals[symbol] = clearEntry(@)]

fetchCompletes(f, symbol, outcome) ==
    LET landed == [f EXCEPT !.inFlight[symbol] = @ - 1]
    IN IF outcome = "ok"
       THEN LET data == landed.updateCount + 1
                cached == [landed EXCEPT !.cache[symbol] = data]
                notified == notifySubscribers(cached, symbol, data)
            IN [notified EXCEPT !.updateCount = @ + 1]
       ELSE landed

SetFeed(f) ==
    /\ mdRunning' = f.running
    /\ mdSubscribers' = f.subscribers
    /\ mdCache' = f.cache
    /\ mdIntervals' = f.intervals
    /\ mdInFlight' = f.inFlight
    /\ mdUpdateCount' = f.updateCount
    /\ mdCallbacks' = f.callbacks

MdStep == mdOps < MaxFeedOps /\ mdOps' = mdOps + 1 /\ UNCHANGED <<pmVars, rmVars, monVars, wsVars, plVars>>

Subscribe(symbol, c, kind) ==
    /\ MdStep
    /\ mdCallbacks[c].symbol = ""
    /\ \A d \in 1..(c - 1) : mdCallbacks[d].symbol # ""      \* c is the next fresh callback
    /\ SetFeed(subscribe(Feed, symbol, c, kind))
    /\ mdResult' = [op |-> "subscribe", symbol |-> symbol, callback |-> c]

Unsubscribe(c) ==
    /\ MdStep
    /\ mdCallbacks[c].handle
    /\ SetFeed(unsubscribe(Feed, c))
    /\ mdResult' = [op |-> "unsubscribe", symbol |-> mdCallbacks[c].symbol, callback |-> c]

StartLiveData ==
    /\ MdStep
    /\ \A s \in Symbols : mdInFlight[s] < MaxInFlight
    /\ SetFeed(startLiveData(Feed))
    /\ mdResult' = [NoFeedResult EXCEPT !.op = "startLiveData"]

StopLiveData ==
    /\ MdStep
    /\ SetFeed(stopLiveData(Feed))
    /\ mdResult' = [NoFeedResult EXCEPT !.op = "stopLiveData"]

StopStreaming(symbol) ==
    /\ MdStep
    /\ SetFeed(stopStreaming(Feed, symbol))
    /\ mdResult' = [NoFeedResult EXCEPT !.op = "stopStreaming", !.symbol = symbol]

\* The polling timer of a symbol fires: fetchRealMarketData(symbol) sends its request
PollingTimerFires(symbol) ==
    /\ mdIntervals[symbol].live > 0
    /\ mdInFlight[symbol] < MaxInFlight
    /\ mdInFlight' = [mdInFlight EXCEPT ![symbol] = @ + 1]
    /\ mdResult' = [NoFeedResult EXCEPT !.op = "poll", !.symbol = symbol]
    /\ UNCHANGED <<mdRunning, mdSubscribers, mdCache, mdIntervals, mdUpdateCount,
                   mdCallbacks, mdOps, pmVars, rmVars, monVars, wsVars, plVars>>

FetchCompletes(symbol, outcome) ==
    /\ mdInFlight[symbol] > 0
    /\ outcome = "ok" => mdUpdateCount < MaxFeedUpdates
    /\ SetFeed(fetchCompletes(Feed, symbol, outcome))
    /\ mdResult' = [NoFeedResult EXCEPT !.op = IF outcome = "ok" THEN "fetched" ELSE outcome,
                                        !.symbol = symbol]
    /\ UNCHANGED <<mdOps, pmVars, rmVars, monVars, wsVars, plVars>>

InitMarketData ==
    /\ mdRunning = FALSE
    /\ mdSubscribers = [s \in Symbols |-> <<>>]
    /\ mdCache = [s \in Symbols |-> NoSnapshot]
    /\ mdIntervals = [s \in Symbols |-> [entry |-> FALSE, live |-> 0]]
    /\ mdInFlight = [s \in Symbols |-> 0]
    /\ mdUpdateCount = 0
    /\ mdCallbacks = [c \in CallbackIds |-> NoSubscription]
    /\ mdOps = 0
    /\ mdResult = NoFeedResult

NextMarketData ==
    \/ \E s \in Symbols, c \in CallbackIds, kind \in CallbackKinds : Subscribe(s, c, kind)
    \/ \E c \in CallbackIds : Unsubscribe(c)
    \/ StartLiveData
    \/ StopLiveData
    \/ \E s \in Symbols : StopStreaming(s)
    \/ \E s \in Symbols : PollingTimerFires(s)
    \/ \E s \in Symbols, outcome \in FetchOutcomes : FetchCompletes(s, outcome)

----------------------------------------------------------------------------
(* LiveDataPipeline: queue, signal conditions and signal generation        *)

\* Bounds of the pipeline model
MaxPipelineOps == 5                 \* outside calls and clock ticks in one behaviour
MaxLoops == 2                       \* processQueue calls alive at the same time
MaxClockDrifts == 1                 \* clock moves between two reads of one function
MaxTime == 60000                    \* the clock stops here
TimeSteps == {10000, 30000}         \* what the clock advances by between events

SignalInterval == 30000             \* checkTimeCondition: timeSinceLastSignal > 30000
ForceInterval == 30000              \* shouldGenerateSignal: timeSinceLastForce > 30000
Infinity == 1000000000              \* getTimeSinceLastSignal without a signal
QueueDelay == 100                   \* processQueue: await this.delay(100)

\* marketDataService.getCurrentData(symbol): nothing yet, a quiet market in which
\* no condition on the data holds, or a market that moved 2% in 24 hours.
\* Sentiment in hundredths.
\* shape tells which parts of the snapshot are there: all of them, all but
\* technicals.ema (read by createTradingSignal only), or no tick (read by
\* processSymbol before anything else).
NoMarketData == [available |-> FALSE]
PipelineData ==
    { [available |-> TRUE, change24h |-> 0, rsi |-> 50, macd |-> 0, macdSignal |-> 0,
       sentimentScore |-> 0, sentimentConfidence |-> 60, shape |-> "complete"],
      [available |-> TRUE, change24h |-> 2, rsi |-> 50, macd |-> 0, macdSignal |-> 0,
       sentimentScore |-> 0, sentimentConfidence |-> 60, shape |-> "complete"] }
IncompleteData ==
    [available |-> TRUE, change24h |-> 2, rsi |-> 50, macd |-> 0, macdSignal |-> 0,
     sentimentScore |-> 0, sentimentConfidence |-> 60, shape |-> "noEma"]
BrokenData == [available |-> TRUE, shape |-> "noTick"]
CurrentDataChoices == PipelineData \cup {NoMarketData, IncompleteData, BrokenData}

\* What the chart collaborator does for one captureChartForAnalysis call
ChartOutcomes == {"captured", "elementMissing", "neverReadyCaptured", "neverReadyNull",
                  "captureThrows", "captureNull"}
NoChartData == "null"

\* captureChartForAnalysis(symbol): the captured chart, or null
captureChartForAnalysis(chart) ==
    IF chart \in {"captured", "neverReadyCaptured"} THEN "chart" ELSE NoChartData

\* createTradingSignal throws on a snapshot without technicals.ema
createThrows(shape) == shape = "noEma"

\* generateSignal stores a signal only when a chart was captured
signalCreated_NeedsChart(chartData, shape) == chartData # NoChartData /\ ~createThrows(shape)

\* generateSignal: chartData is handed on as it is, null included, and a signal
\* is stored unless createTradingSignal throws
signalCreated(chartData, shape) == ~createThrows(shape)

\* A signal id no signal was stored under
UnknownSignalId == <<"signal", "none", 0>>

\* Signal ids: `signal_${symbol}_${Date.now()}`
SignalId(symbol, t) == <<"signal", symbol, t>>

SignalsOf(sigs, symbol) == { id \in DOMAIN sigs : sigs[id].symbol = symbol }

\* The latest signal of a symbol: sort by timestamp, descending, take [0]
LastSignalTimestamp(sigs, symbol) ==
    CHOOSE t \in { sigs[id].timestamp : id \in SignalsOf(sigs, symbol) } :
        \A id \in SignalsOf(sigs, symbol) : sigs[id].timestamp <= t

\* getTimeSinceLastSignal(symbol), the clock reading t
getTimeSinceLastSignal(sigs, symbol, t) ==
    IF SignalsOf(sigs, symbol) = {} THEN Infinity
    ELSE t - LastSignalTimestamp(sigs, symbol)

checkVolatilityCondition(data) == Abs(data.change24h) > 1

checkTechnicalCondition(data) ==
    (data.rsi < 40 \/ data.rsi > 60) \/ (data.macd # data.macdSignal)

checkSentimentCondition(data) ==
    Abs(data.sentimentScore) > 30 /\ data.sentimentConfidence > 50

\* checkTimeCondition(symbol), the clock reading t
checkTimeCondition(sigs, symbol, t) ==
    IF SignalsOf(sigs, symbol) = {} THEN TRUE
    ELSE t - LastSignalTimestamp(sigs, symbol) > SignalInterval

\* shouldGenerateSignal without the force branch
shouldGenerateSignal_NoForce(sigs, symbol, data, t1, t2) ==
    LET v == checkVolatilityCondition(data)
        te == checkTechnicalCondition(data)
        se == checkSentimentCondition(data)
        ti == checkTimeCondition(sigs, symbol, t1)
        metConditions == Cardinality({ c \in {<<1, v>>, <<2, te>>, <<3, se>>, <<4, ti>>} : c[2] })
    IN [volatility |-> v, technical |-> te, sentiment |-> se, time |-> ti,
        timeSinceLastForce |-> getTimeSinceLastSignal(sigs, symbol, t2),
        forced |-> FALSE,
        result |-> metConditions >= 1]

\* shouldGenerateSignal(symbol, data): checkTimeCondition reads the clock at t1,
\* the force branch reads it again at t2 >= t1.  What it returns is result; the
\* other fields are its locals.
shouldGenerateSignal(sigs, symbol, data, t1, t2) ==
    LET v == checkVolatilityCondition(data)
        te == checkTechnicalCondition(data)
        se == checkSentimentCondition(data)
        ti == checkTimeCondition(sigs, symbol, t1)
        metConditions == Cardinality({ c \in {<<1, v>>, <<2, te>>, <<3, se>>, <<4, ti>>} : c[2] })
        shouldGenerate == metConditions >= 1
        timeSinceLastForce == getTimeSinceLastSignal(sigs, symbol, t2)
        forced == ~shouldGenerate /\ timeSinceLastForce > ForceInterval
    IN [volatility |-> v, technical |-> te, sentiment |-> se, time |-> ti,
        timeSinceLastForce |-> timeSinceLastForce,
        forced |-> forced,
        result |-> (forced \/ shouldGenerate)]

\* processSymbol returned before the check: no market data
NoCheck == [volatility |-> FALSE, technical |-> FALSE, sentiment |-> FALSE, time |-> FALSE,
            timeSinceLastForce |-> 0, forced |-> FALSE, result |-> FALSE]

\* One more call or tick from outside, within the bound of the exploration
PlCount == plOps < MaxPipelineOps /\ plOps' = plOps + 1 /\ UNCHANGED <<pmVars, rmVars, monVars, wsVars>>

PlStep == PlCount /\ UNCHANGED mdVars

plTimers == <<rotationTimers, metricsTimers, symbolRotationIndex>>

\* configManager.getSymbols(), in the order of the configuration
SymbolList == <<"BTC/USDT", "ETH/USDT">>

\* One pass of the while loop of processQueue, up to the first point where it
\* waits: shift the symbol and run processSymbol until generateSignal awaits the
\* chart, or until processSymbol returns and the delay is awaited.
RunIteration(queue, ls, i, data, drift) ==
    LET symbol == Head(queue)
        t2 == now + drift
        readable == data.available /\ data.shape # "noTick"
        thrown == data.available /\ ~readable
        check == IF readable
                 THEN shouldGenerateSignal(signals, symbol, data, now, t2)
                 ELSE NoCheck
    IN /\ drift = 0 \/ (readable /\ clockDrifts < MaxClockDrifts /\ t2 <= MaxTime)
       /\ processingQueue' = Tail(queue)
       /\ now' = t2
       /\ clockDrifts' = clockDrifts + drift
       /\ loops' = [ls EXCEPT ![i] = [pc |-> IF check.result THEN "generateSignal" ELSE "delay",
                                      symbol |-> symbol,
                                      available |-> data.available,
                                      check |-> check,
                                      delayFrom |-> t2,
                                      emitted |-> 0,
                                      shape |-> IF data.available THEN data.shape
                                                ELSE "none",
                                      chart |-> "none",
                                      items |-> ls[i].items + 1]]
       /\ processedCount' = IF readable /\ ~check.result
                            THEN processedCount + 1 ELSE processedCount
       /\ errorCount' = IF thrown THEN errorCount + 1 ELSE errorCount
       /\ events' = IF thrown THEN [events EXCEPT !.ERROR = @ + 1] ELSE events

NewLoop == [pc |-> "start", symbol |-> "", available |-> FALSE, check |-> NoCheck,
            delayFrom |-> 0, emitted |-> 0, shape |-> "none", chart |-> "none",
            items |-> 0]

\* startPipeline()
StartPipeline ==
    /\ PlCount
    /\ ~isRunning
    /\ isRunning' = TRUE
    /\ SetFeed(startLiveData(Feed))
    /\ rotationTimers' = rotationTimers + 1
    /\ metricsTimers' = metricsTimers + 1
    /\ events' = [events EXCEPT !.STATUS_UPDATE = @ + 1]
    /\ UNCHANGED <<signals, processingQueue, isProcessing, loops, metrics, processedCount,
                   errorCount, now, clockDrifts, symbolRotationIndex, mdOps, mdResult>>

\* stopPipeline()
StopPipeline ==
    /\ PlCount
    /\ isRunning
    /\ isRunning' = FALSE
    /\ SetFeed(stopLiveData(Feed))
    /\ processingQueue' = <<>>
    /\ isProcessing' = FALSE
    /\ events' = [events EXCEPT !.STATUS_UPDATE = @ + 1]
    /\ UNCHANGED <<signals, loops, metrics, processedCount, errorCount, now, clockDrifts,
                   plTimers, mdOps, mdResult>>

\* The callback of the setInterval of startSymbolRotation
RotationTimerFires ==
    /\ PlStep
    /\ rotationTimers > 0
    /\ IF ~isRunning
       THEN UNCHANGED <<processingQueue, symbolRotationIndex>>
       ELSE LET symbol == SymbolList[symbolRotationIndex + 1]
            IN /\ processingQueue' =
                    IF \E j \in DOMAIN processingQueue : processingQueue[j] = symbol
                    THEN processingQueue
                    ELSE Append(processingQueue, symbol)
               /\ symbolRotationIndex' = (symbolRotationIndex + 1) % Len(SymbolList)
    /\ UNCHANGED <<isRunning, signals, isProcessing, loops, metrics, processedCount,
                   errorCount, events, now, clockDrifts, rotationTimers, metricsTimers>>

\* signals.filter(s => s.status === 'ACTIVE' || s.status === 'PENDING').length
ActiveCount(sigs) ==
    Cardinality({ id \in DOMAIN sigs : sigs[id].status \in {"ACTIVE", "PENDING"} })

\* successRate and errorRate as updateMetrics sets them, in thousandths of a
\* percent: recomputed only when something has been processed
updateRates(m, processed, errors) ==
    IF processed > 0
    THEN [m EXCEPT !.successRate = ((processed - errors) * 100000) \div processed,
                   !.errorRate = (errors * 100000) \div processed]
    ELSE m

\* The callback of the setInterval of startMetricsCollection: updateMetrics()
MetricsTimerFires ==
    /\ PlStep
    /\ metricsTimers > 0
    /\ metrics' = updateRates([metrics EXCEPT !.activeSignals = ActiveCount(signals)],
                              processedCount, errorCount)
    /\ UNCHANGED <<isRunning, signals, processingQueue, isProcessing, loops, processedCount,
                   errorCount, events, now, clockDrifts, plTimers>>

\* handleMarketDataUpdate(symbol, data), the callback of the market data
\* subscription; processQueue starts inside it when no loop holds isProcessing
HandleMarketDataUpdate(symbol, data, drift) ==
    LET queue == IF \E j \in DOMAIN processingQueue : processingQueue[j] = symbol
                 THEN processingQueue
                 ELSE Append(processingQueue, symbol)
    IN /\ PlStep
       /\ isRunning
       /\ IF ~isProcessing
          THEN /\ Len(loops) < MaxLoops
               /\ isProcessing' = TRUE
               /\ RunIteration(queue, Append(loops, NewLoop), Len(loops) + 1, data, drift)
               /\ UNCHANGED <<isRunning, signals, metrics, plTimers>>
          ELSE /\ processingQueue' = queue
               /\ drift = 0
               /\ data = NoMarketData
               /\ UNCHANGED <<isRunning, signals, isProcessing, loops, metrics,
                              processedCount, errorCount, events, now, clockDrifts, plTimers>>

\* generateSignal resumes after captureChartForAnalysis: createTradingSignal,
\* signals.set, the counters and the SIGNAL_GENERATED event, or its catch when
\* createTradingSignal throws; processSymbol then counts the symbol as processed
\* and processQueue awaits the delay
GenerateSignalCompletes(i, chart) ==
    /\ i \in DOMAIN loops
    /\ loops[i].pc = "generateSignal"
    /\ LET symbol == loops[i].symbol
           id == SignalId(symbol, now)
           chartData == captureChartForAnalysis(chart)
       IN IF signalCreated(chartData, loops[i].shape)
          THEN /\ signals' = [k \in DOMAIN signals \cup {id} |->
                                IF k = id
                                THEN [symbol |-> symbol, timestamp |-> now,
                                      status |-> "PENDING"]
                                ELSE signals[k]]
               /\ metrics' = [metrics EXCEPT !.totalSignals = @ + 1,
                                             !.activeSignals = @ + 1]
               /\ events' = [events EXCEPT !.SIGNAL_GENERATED = @ + 1]
               /\ loops' = [loops EXCEPT ![i].pc = "delay", ![i].delayFrom = now,
                                         ![i].emitted = @ + 1, ![i].chart = chart]
               /\ UNCHANGED errorCount
          ELSE /\ errorCount' = errorCount + 1
               /\ loops' = [loops EXCEPT ![i].pc = "delay", ![i].delayFrom = now,
                                         ![i].chart = chart]
               /\ UNCHANGED <<signals, metrics, events>>
    /\ processedCount' = processedCount + 1
    /\ UNCHANGED <<isRunning, processingQueue, isProcessing, now, clockDrifts,
                   plTimers, plOps, pmVars, rmVars, monVars, wsVars, mdVars>>

\* The signal ids a client calls executeSignal and cancelSignal with
CommandIds == DOMAIN signals \cup {UnknownSignalId}

\* executeSignal(signalId) of the pipeline
PipelineExecuteSignal(signalId) ==
    /\ PlStep
    /\ IF signalId \in DOMAIN signals
       THEN /\ signals' = [signals EXCEPT ![signalId].status = "EXECUTED"]
            /\ metrics' = [metrics EXCEPT !.activeSignals = @ - 1]
            /\ events' = [events EXCEPT !.SIGNAL_EXECUTED = @ + 1]
       ELSE UNCHANGED <<signals, metrics, events>>
    /\ UNCHANGED <<isRunning, processingQueue, isProcessing, loops, processedCount,
                   errorCount, now, clockDrifts, plTimers>>

\* cancelSignal(signalId)
CancelSignal(signalId) ==
    /\ PlStep
    /\ IF signalId \in DOMAIN signals
       THEN /\ signals' = [signals EXCEPT ![signalId].status = "CANCELLED"]
            /\ metrics' = [metrics EXCEPT !.activeSignals = @ - 1]
       ELSE UNCHANGED <<signals, metrics>>
    /\ UNCHANGED <<isRunning, processingQueue, isProcessing, loops, processedCount,
                   errorCount, events, now, clockDrifts, plTimers>>

\* The delay of processQueue elapses: the loop takes the next symbol, or it ends
DelayElapses(i, data, drift) ==
    /\ i \in DOMAIN loops
    /\ loops[i].pc = "delay"
    /\ now - loops[i].delayFrom >= QueueDelay
    /\ IF Len(processingQueue) > 0 /\ isRunning
       THEN /\ RunIteration(processingQueue, loops, i, data, drift)
            /\ UNCHANGED <<isRunning, signals, isProcessing, metrics>>
       ELSE /\ drift = 0
            /\ data = NoMarketData
            /\ isProcessing' = FALSE
            /\ loops' = RemoveAt(loops, i)
            /\ UNCHANGED <<isRunning, signals, processingQueue, metrics, processedCount,
                           errorCount, events, now, clockDrifts>>
    /\ UNCHANGED <<plTimers, plOps, pmVars, rmVars, monVars, wsVars, mdVars>>

\* Time passes between two events
Tick(d) ==
    /\ PlStep
    /\ now + d <= MaxTime
    /\ now' = now + d
    /\ UNCHANGED <<isRunning, signals, processingQueue, isProcessing, loops, metrics,
                   processedCount, errorCount, events, clockDrifts, plTimers>>

\* A client command, for any id it may hold
ExecuteCommand == \E signalId \in CommandIds : PipelineExecuteSignal(signalId)

CancelCommand == \E signalId \in CommandIds : CancelSignal(signalId)

InitPipeline ==
    /\ isRunning = FALSE
    /\ signals = <<>>
    /\ processingQueue = <<>>
    /\ isProcessing = FALSE
    /\ loops = <<>>
    /\ metrics = [totalSignals |-> 0, activeSignals |-> 0, successRate |-> 0,
                 errorRate |-> 0]
    /\ processedCount = 0
    /\ errorCount = 0
    /\ events = [SIGNAL_GENERATED |-> 0, SIGNAL_EXECUTED |-> 0, ERROR |-> 0,
                 STATUS_UPDATE |-> 0]
    /\ now = 0
    /\ clockDrifts = 0
    /\ rotationTimers = 0
    /\ metricsTimers = 0
    /\ symbolRotationIndex = 0
    /\ plOps = 0

NextPipeline ==
    \/ StartPipeline
    \/ StopPipeline
    \/ \E symbol \in Symbols, data \in CurrentDataChoices, drift \in {0, 1} :
          HandleMarketDataUpdate(symbol, data, drift)
    \/ \E i \in 1..MaxLoops, chart \in ChartOutcomes : GenerateSignalCompletes(i, chart)
    \/ \E i \in 1..MaxLoops, data \in CurrentDataChoices, drift \in {0, 1} :
          DelayElapses(i, data, drift)
    \/ ExecuteCommand
    \/ CancelCommand
    \/ \E d \in TimeSteps : Tick(d)
    \/ RotationTimerFires
    \/ MetricsTimerFires

----------------------------------------------------------------------------
(* Specifications *)

Init ==
    /\ InitPortfolio /\ InitRisk /\ InitMonitor /\ InitWebSocket /\ InitPipeline
    /\ InitMarketData

SpecPortfolio == Init /\ [][NextPortfolio]_vars

SpecRisk == Init /\ [][NextRisk]_vars

SpecMonitor == Init /\ [][NextMonitor]_vars

SpecWebSocket == Init /\ [][NextWebSocket]_vars

SpecPipeline == Init /\ [][NextPipeline]_vars

\* The pipeline under the scheduling of the event loop: an elapsed delay and a
\* settled generateSignal resume their loop, time passes and the interval timers
\* fire. Market data callbacks, commands, start and stop are up to the
\* environment and carry no fairness.
SpecPipelineLive ==
    /\ SpecPipeline
    /\ WF_vars(\E i \in 1..MaxLoops, data \in CurrentDataChoices, drift \in {0, 1} :
                  DelayElapses(i, data, drift))
    /\ WF_vars(\E i \in 1..MaxLoops, chart \in ChartOutcomes : GenerateSignalCompletes(i, chart))
    /\ WF_vars(\E d \in TimeSteps : Tick(d))
    /\ WF_vars(RotationTimerFires)
    /\ WF_vars(MetricsTimerFires)

SpecMarketData == Init /\ [][NextMarketData]_vars

----------------------------------------------------------------------------
(* Claims about PortfolioManager *)

\* C1: after every operation, totalValue equals availableCash plus the sum of
\* marketValue over the positions still in portfolio.positions.
C1_TotalValueIsCashPlusPositions ==
    portfolio.totalValue = portfolio.availableCash + SumMarketValue(portfolio.positions)

\* C1 witness: a market-data update has auto-closed one position while another
\* one, repriced by an earlier update, stays open.
C1_Witness ==
    /\ pmResult.op = "updateMarketData"
    /\ Len(pmResult.closed) > 0
    /\ \E i \in 1..Len(portfolio.positions) :
          portfolio.positions[i].marketValue #
            portfolio.positions[i].quantity * portfolio.positions[i].entryPrice

\* The closing trade of the last operation (the last trade of the history)
LastTrade == trades[Len(trades)]

\* C4: a successful closePosition returns realizedPnL = (exit - entry) * quantity
\* for LONG and (entry - exit) * quantity for SHORT, exit being the price of the
\* closing trade; fees are no part of it.
C4_RealizedPnLBySide ==
    (pmResult.op = "closePosition" /\ pmResult.success) =>
      LET c == pmResult.closed[1].position
          exit == LastTrade.price
      IN /\ LastTrade.opening = FALSE /\ LastTrade.positionId = c.id
         /\ c.side = "LONG" => pmResult.realizedPnL = (exit - c.entryPrice) * c.quantity
         /\ c.side = "SHORT" => pmResult.realizedPnL = (c.entryPrice - exit) * c.quantity
         /\ c.realizedPnL = pmResult.realizedPnL

\* C4 witness: a SHORT closed below its entry with a positive realizedPnL while the
\* closing trade carried a fee.
C4_Witness ==
    /\ pmResult.op = "closePosition" /\ pmResult.success
    /\ pmResult.closed[1].position.side = "SHORT"
    /\ LastTrade.price < pmResult.closed[1].position.entryPrice
    /\ pmResult.realizedPnL > 0
    /\ LastTrade.fees > 0

\* C8: after updateMarketData(symbol, price) no LONG position on the symbol with
\* price <= stopLoss is left open; each LONG the update closed at or below its stop
\* has realizedPnL = (price - entryPrice) * quantity and a POSITION alert with the
\* reason "Stop Loss" was added.
C8_StopLossClosesEveryLong ==
    pmResult.op = "updateMarketData" =>
      /\ \A i \in 1..Len(portfolio.positions) :
            LET p == portfolio.positions[i]
            IN ~(p.symbol = pmResult.symbol /\ p.side = "LONG" /\ p.stopLoss # 0
                 /\ pmResult.price <= p.stopLoss)
      /\ \A k \in 1..Len(pmResult.closed) :
            LET c == pmResult.closed[k]
            IN (c.position.side = "LONG" /\ pmResult.price <= c.position.stopLoss) =>
                 /\ c.position.realizedPnL =
                      (pmResult.price - c.position.entryPrice) * c.position.quantity
                 /\ c.reason = "Stop Loss"
                 /\ \E a \in 1..Len(alerts) :
                       /\ alerts[a].type = "POSITION"
                       /\ alerts[a].reason = "Stop Loss"
                       /\ alerts[a].symbol = c.position.symbol

\* The ids handed out so far
IssuedIds == 1..(nextPositionId - 1)

IsOpen(pf, id) == findIndex(pf.positions, id) # 0

\* C16: every position in portfolio.positions has status OPEN; a position that
\* an operation closed has status CLOSED and is not in portfolio.positions; a
\* position that left portfolio.positions never comes back into it.
C16_OpenSetHoldsOpenOnly ==
    /\ \A i \in 1..Len(portfolio.positions) : portfolio.positions[i].status = "OPEN"
    /\ \A k \in 1..Len(pmResult.closed) :
          /\ pmResult.closed[k].position.status = "CLOSED"
          /\ ~IsOpen(portfolio, pmResult.closed[k].position.id)

C16_ClosedStaysOut ==
    \A id \in IssuedIds : ~IsOpen(portfolio, id) => ~IsOpen(portfolio', id)

\* C16 as a whole: the open set holds OPEN positions only, and what left it
\* stays out.
C16_StatusOnlyMovesForward ==
    /\ []C16_OpenSetHoldsOpenOnly
    /\ [][C16_ClosedStaysOut]_vars

C16_Witness ==
    /\ pmResult.closed # <<>>
    /\ Len(portfolio.positions) > 0

\* Balances below the cost of a position, in thousandths of a dollar: the
\* position value being a fifth of the cash, only a negative balance is short
ShortCashChoices == {0 - 22500000, 0 - 50000000}

\* C17: a successful executeSignal takes quantity * entryPrice + fees from
\* availableCash; on a balance that is short of that amount it returns
\* 'Insufficient funds' and changes nothing; availableCash is never negative.
C17_CashNeverNegative == portfolio.availableCash >= 0

C17_ShortCashIsRefused ==
    \A signal \in PortfolioSignals, cash \in ShortCashChoices :
        marketData[signal.symbol] # NoPrice =>
            LET w == [World EXCEPT !.portfolio.availableCash = cash]
                r == executeSignal(w, signal)
            IN ~r.success /\ r.error = "Insufficient funds" /\ r.w = w

C17_ExecuteStep ==
    pmResult'.op = "executeSignal" =>
        IF pmResult'.success
        THEN LET trade == trades'[Len(trades')]
             IN /\ portfolio'.availableCash =
                      portfolio.availableCash - (trade.quantity * trade.price + trade.fees)
                /\ trade.price = pmResult'.price
        ELSE /\ portfolio' = portfolio
             /\ trades' = trades
             /\ alerts' = alerts

\* C17 as a whole: the exact debit on success, the refusal on a short balance,
\* and a balance that is never negative.
C17_DebitIsCostPlusFees ==
    /\ [](C17_CashNeverNegative /\ C17_ShortCashIsRefused)
    /\ [][C17_ExecuteStep]_vars

C17_Witness ==
    /\ pmResult.op = "executeSignal"
    /\ pmResult.success
    /\ trades[Len(trades)].fees > 0
    /\ Len(portfolio.positions) > 1

\* C18: a successful closePosition adds exitValue - fees to availableCash, takes
\* exactly the closed position out of portfolio.positions, appends one FILLED
\* trade of the opposite side, and adds realizedPnL to totalPnL and dailyPnL;
\* the other open positions and the earlier trades stay as they were.
C18_CloseStep ==
    (pmResult'.op = "closePosition" /\ pmResult'.success) =>
        LET index == findIndex(portfolio.positions, pmResult'.positionId)
            position == portfolio.positions[index]
            trade == trades'[Len(trades')]
        IN /\ index # 0
           /\ trades' = Append(trades, trade)
           /\ trade.status = "FILLED"
           /\ trade.side = IF position.side = "LONG" THEN "SELL" ELSE "BUY"
           /\ trade.symbol = position.symbol
           /\ trade.quantity = position.quantity
           /\ trade.value = position.quantity * trade.price
           /\ portfolio'.availableCash = portfolio.availableCash + trade.value - trade.fees
           /\ portfolio'.positions = SubSeq(portfolio.positions, 1, index - 1)
                                     \o SubSeq(portfolio.positions, index + 1,
                                               Len(portfolio.positions))
           /\ portfolio'.totalPnL = portfolio.totalPnL + pmResult'.realizedPnL
           /\ portfolio'.dailyPnL = portfolio.dailyPnL + pmResult'.realizedPnL

\* C18 as a whole: every successful close is such a step.
C18_CloseTouchesOnlyItsPosition == [][C18_CloseStep]_vars

\* a close of the first of two open positions, with fees and a nonzero result
C18_Witness ==
    /\ pmResult.op = "closePosition"
    /\ pmResult.success
    /\ pmResult.realizedPnL # 0
    /\ trades[Len(trades)].fees > 0
    /\ Len(portfolio.positions) > 0
    /\ portfolio.positions[1].id > pmResult.positionId

\* C19: closePosition for a portfolio that is not known, or for a position id
\* that is not in the open set (a second close of the same position included),
\* returns success = false with a 'not found' error and changes neither the
\* cash, the PnL, the positions, the trades nor the alerts.
C19_RefusedCloseStep ==
    (/\ pmResult'.op = "closePosition"
     /\ ~pmResult'.portfolioKnown \/ ~IsOpen(portfolio, pmResult'.positionId)) =>
        /\ ~pmResult'.success
        /\ pmResult'.error = IF pmResult'.portfolioKnown THEN "Position not found"
                             ELSE "Portfolio not found"
        /\ portfolio' = portfolio
        /\ trades' = trades
        /\ alerts' = alerts

\* C19 as a whole: every refused close is such a step.
C19_UnknownCloseChangesNothing == [][C19_RefusedCloseStep]_vars

\* the second close of a position that was closed before
C19_Witness ==
    /\ pmResult.op = "closePosition"
    /\ pmResult.portfolioKnown
    /\ ~pmResult.success
    /\ pmResult.positionId \in IssuedIds
    /\ \E k \in 1..Len(trades) :
          ~trades[k].opening /\ trades[k].positionId = pmResult.positionId

\* A price at or beyond a level of the position, by its side
LevelCrossed(position, price) ==
    IF position.side = "LONG"
    THEN price <= position.stopLoss \/ price >= position.takeProfit
    ELSE price >= position.stopLoss \/ price <= position.takeProfit

\* C25: updateMarketData(symbol, price) closes an open position of the symbol
\* exactly when the price is at or beyond its stop-loss or take-profit level,
\* by the side of the position, and closes no position of another symbol.
C25_UpdateStep ==
    pmResult'.op = "updateMarketData" =>
        \A i \in 1..Len(portfolio.positions) :
            LET position == portfolio.positions[i]
            IN IF position.symbol = pmResult'.symbol
               THEN ~IsOpen(portfolio', position.id)
                        <=> LevelCrossed(position, pmResult'.price)
               ELSE IsOpen(portfolio', position.id)

C25_ClosedIffLevelCrossed == [][C25_UpdateStep]_vars

\* C31: updateMarketData(symbol, price) re-prices every position on the symbol
\* that was open when it started, and checks its levels: afterwards each of them
\* is either closed or carries currentPrice, marketValue and unrealizedPnL of
\* the new price with no level crossed.
C31_RepriceStep ==
    pmResult'.op = "updateMarketData" =>
        \A i \in 1..Len(portfolio.positions) :
            LET position == portfolio.positions[i]
                k == findIndex(portfolio'.positions, position.id)
            IN (position.symbol = pmResult'.symbol /\ k # 0) =>
                  LET after == portfolio'.positions[k]
                  IN /\ after.currentPrice = pmResult'.price
                     /\ after.marketValue = after.quantity * pmResult'.price
                     /\ after.unrealizedPnL =
                           closePriceDiff(after, pmResult'.price) * after.quantity
                     /\ ~LevelCrossed(after, pmResult'.price)

C31_EveryPositionRepriced == [][C31_RepriceStep]_vars

\* The level an automatic close was triggered by
CrossedLevel(position, price) ==
    IF position.side = "LONG"
    THEN IF price <= position.stopLoss THEN "Stop Loss" ELSE "Take Profit"
    ELSE IF price >= position.stopLoss THEN "Stop Loss" ELSE "Take Profit"

\* C32: the reason of an automatic close names the level that was crossed, for
\* LONG and for SHORT positions.
C32_ReasonNamesCrossedLevel ==
    pmResult.op = "updateMarketData" =>
        \A k \in 1..Len(pmResult.closed) :
            pmResult.closed[k].reason =
                CrossedLevel(pmResult.closed[k].position, pmResult.price)

RECURSIVE SumFees(_)
SumFees(ts) == IF ts = <<>> THEN 0 ELSE ts[1].fees + SumFees(Tail(ts))

\* The cash a portfolio of the model starts with
InitialBalances ==
    {DefaultInitialCash * MoneyScale} \cup { c * MoneyScale : c \in InitialCashChoices }

\* C33: with no position open, availableCash is the initial cash plus totalPnL
\* minus the fees of all trades.
C33_CashConserved ==
    portfolio.positions = <<>> =>
        portfolio.availableCash - portfolio.totalPnL + SumFees(trades) \in InitialBalances

\* C34: executeSignal with a HOLD signal creates no position and no trade and
\* leaves availableCash as it was.
C34_HoldStep ==
    (pmResult'.op = "executeSignal" /\ pmResult'.direction = "HOLD") =>
        /\ portfolio'.positions = portfolio.positions
        /\ trades' = trades
        /\ portfolio'.availableCash = portfolio.availableCash

C34_HoldOpensNothing == [][C34_HoldStep]_vars

----------------------------------------------------------------------------
(* Claims about RiskManager *)

\* C3 as stated: evaluateSignalRisk never approves at or above maxOpenPositions,
\* and as long as addPosition is called only for approved signals the tracked
\* count stays at most maxOpenPositions.
C3_ApprovedAddsKeepLimit ==
    /\ (rmResult.op = "evaluateSignalRisk" /\ rmResult.approved) =>
          TrackedCount < riskParams.maxOpenPositions
    /\ onlyApprovedAdds => TrackedCount <= riskParams.maxOpenPositions

\* C3 amended: evaluateSignalRisk never approves at or above maxOpenPositions,
\* and as long as every addPosition directly follows the approving evaluation of
\* its signal the tracked count stays at most maxOpenPositions.
C3_DirectAddsKeepLimit ==
    /\ (rmResult.op = "evaluateSignalRisk" /\ rmResult.approved) =>
          TrackedCount < riskParams.maxOpenPositions
    /\ onlyDirectAdds => TrackedCount <= riskParams.maxOpenPositions

\* C3 witness: the limit is reached through approved adds, and a further signal
\* has just been refused for it.
C3_Witness ==
    /\ onlyDirectAdds
    /\ TrackedCount = riskParams.maxOpenPositions
    /\ rmResult.op = "evaluateSignalRisk"
    /\ ~rmResult.approved
    /\ rmResult.reasons = {"Maximum open positions reached"}

C14_ApprovedIffNoHardViolation ==
    rmResult.op = "evaluateSignalRisk" =>
        LET signal == RiskSignal(rmResult.signalId)
            sizeOver == signal.entryPrice * AssumedShares > riskParams.maxPositionSize
            lossOver == dailyPnL < 0 - riskParams.maxDailyLoss
            countOver == Cardinality(DOMAIN rmPositions) >= riskParams.maxOpenPositions
        IN rmResult.approved <=>
              (~sizeOver /\ ~lossOver /\ ~countOver /\ rmResult.riskScore < ApprovalScoreLimit)

\* a rejection for a hard violation alone, the score being below the limit
C14_Witness ==
    /\ rmResult.op = "evaluateSignalRisk"
    /\ ~rmResult.approved
    /\ rmResult.riskScore > 0
    /\ rmResult.riskScore < ApprovalScoreLimit

\* C15: the riskScore that evaluateSignalRisk returns lies in 0..100, also when
\* several rejection reasons apply at once.
C15_RiskScoreWithinHundred ==
    rmResult.op = "evaluateSignalRisk" =>
        (rmResult.riskScore >= 0 /\ rmResult.riskScore <= 100)

\* The conditions checkRiskAlerts watches, by the message of their alert
PortfolioConditions == {"Daily loss approaching limit", "Drawdown approaching limit",
                        "High concentration risk detected"}

\* C27: risk alerts are created once per condition: of two assessments with no
\* other operation between them (so every condition that held at the first
\* still holds at the second), the second adds no alert for a condition the
\* first one already raised an alert for.
C27_RepeatedAssessmentStep ==
    (rmResult.op = "performRiskAssessment" /\ rmAssessments' = rmAssessments + 1) =>
        \A condition \in PortfolioConditions :
            condition \in rmResult.alerted => condition \notin rmResult'.alerted
C27_OneAlertWhileConditionHolds == [][C27_RepeatedAssessmentStep]_vars

\* C28: an assessment that finds the portfolio risk score above 90 and a tracked
\* position with riskScore above 70 closes the highest-risk one: after the
\* assessment it is no longer among the tracked positions.
C28_AssessmentStep ==
    (/\ rmAssessments' = rmAssessments + 1
     /\ rmResult'.portfolioRiskScore > 90 * 1000
     /\ highRiskPositions(rmPositions) # {}) =>
        highestRiskPosition(rmPositions) \notin DOMAIN rmPositions'
C28_CriticalAssessmentClosesHighestRisk == [][C28_AssessmentStep]_vars

\* C35: removePosition(signalId, realizedPnL) for a signal id the manager does not
\* track leaves the whole risk state as it was: dailyPnL, currentEquity,
\* peakEquity, maxDrawdown and the tracked positions.
C35_UntrackedRemoveStep ==
    (rmResult'.op = "removePosition" /\ rmResult'.signalId \notin DOMAIN rmPositions) =>
        /\ dailyPnL' = dailyPnL
        /\ currentEquity' = currentEquity
        /\ peakEquity' = peakEquity
        /\ maxDrawdown' = maxDrawdown
        /\ rmPositions' = rmPositions
C35_UntrackedRemoveChangesNothing == [][C35_UntrackedRemoveStep]_vars

\* One of the three checks of evaluateSignalRisk that clear approved fires
hardViolation(signal, params, positions, pnl) ==
    \/ signal.entryPrice * AssumedShares > params.maxPositionSize
    \/ dailyLossViolated(pnl, params)
    \/ positionCountViolated(Cardinality(DOMAIN positions), params)

\* C39: the volatility, correlation and liquidity factors can reject a signal on
\* their own: the manager can be handed a signal and a market snapshot that
\* violate neither the size, the daily-loss nor the position-count limit and yet
\* get a riskScore of 70 or more and approved = false.
C39_SoftFactorsCanReject ==
    \E id \in SignalIds, md \in RiskMarketData :
        LET signal == RiskSignal(id)
            r == evaluateSignalRisk(signal, md, riskParams, rmPositions, dailyPnL)
        IN /\ ~hardViolation(signal, riskParams, rmPositions, dailyPnL)
           /\ r.riskScore >= ApprovalScoreLimit
           /\ ~r.approved

----------------------------------------------------------------------------
(* Claims about PerformanceMonitor *)

\* The monitored value behind an alert key is over its threshold
OverThreshold(metric) ==
    isTriggered(monMetrics[metric], thresholds[metric], Checks[CheckOf(metric)].reverse)

\* C5: for every alert key, an alert that exists is never recreated or replaced
\* (same timestamp, value and type for as long as it lives), a check that finds the
\* value over its threshold leaves an alert for the key, a check that finds it back
\* under the threshold leaves the alert resolved, and a resolved alert is never
\* changed again (the flag flips once).
C5_AlertCreatedOnceResolvedOnce ==
    /\ [](monPc = "collectMetrics" /\ monTicks > 0 =>
            \A m \in MetricNames :
                /\ OverThreshold(m) => monAlerts[AlertIdOf(m)].exists
                /\ ~OverThreshold(m) =>
                      (monAlerts[AlertIdOf(m)].exists => monAlerts[AlertIdOf(m)].resolved))
    /\ [][\A k \in AlertIds :
            monAlerts[k].exists =>
                /\ monAlerts'[k].exists
                /\ monAlerts'[k].timestamp = monAlerts[k].timestamp
                /\ monAlerts'[k].value = monAlerts[k].value
                /\ monAlerts'[k].type = monAlerts[k].type
                /\ (monAlerts[k].resolved => monAlerts'[k].resolved)]_vars

\* C5 witness: the CPU alert raised in the first pass (170% against 80%) has
\* survived two further over-threshold passes and was then resolved, and the
\* latest pass found the value under the threshold again.
C5_Witness ==
    /\ monPc = "collectMetrics"
    /\ monTicks = 4
    /\ monAlerts[AlertIdOf("cpuUsage")].exists
    /\ monAlerts[AlertIdOf("cpuUsage")].timestamp = 1
    /\ monAlerts[AlertIdOf("cpuUsage")].value = 170
    /\ monAlerts[AlertIdOf("cpuUsage")].resolved
    /\ ~OverThreshold("cpuUsage")
    /\ monAlerts[AlertIdOf("winRate")].exists
    /\ ~monAlerts[AlertIdOf("winRate")].resolved

\* C24: after every pass of the checks, each key whose monitored value is over
\* its threshold has an alert that is not resolved, also when an earlier alert
\* of that key was resolved before.
C24_OverThresholdHasUnresolvedAlert ==
    (monPc = "collectMetrics" /\ monTicks > 0) =>
        \A m \in MetricNames :
            OverThreshold(m) =>
                (monAlerts[AlertIdOf(m)].exists /\ ~monAlerts[AlertIdOf(m)].resolved)

----------------------------------------------------------------------------
(* Claims about WebSocketService *)

\* C6: for every exchange the reconnections scheduled since the last successful
\* open never exceed maxReconnectAttempts, and once the counter has reached the
\* maximum no socket close and no connect failure schedules another one.
C6_ReconnectionsBounded ==
    /\ [](\A e \in Exchanges : ws[e].scheduledSinceOpen <= maxReconnectAttempts)
    /\ [][\A e \in Exchanges :
            ws[e].reconnectAttempts = maxReconnectAttempts
            => ws'[e].autoTimers <= ws[e].autoTimers]_vars

\* C6 witness: all ten reconnections were used up without an open, and the failure
\* after the last one was refused.
C6_Witness ==
    \E e \in Exchanges :
        /\ ws[e].scheduledSinceOpen = maxReconnectAttempts
        /\ ws[e].reconnectAttempts = maxReconnectAttempts
        /\ ws[e].autoTimers = 0
        /\ ws[e].log = "Max reconnection attempts reached"

\* The state of the feed as the service exposes it (getConnectionStatus)
FeedState(e) == IF ws[e].connection # 0 THEN "CONNECTED" ELSE "DISCONNECTED"

\* The critical alerts among everything the service has emitted for an exchange
CriticalAlerts(e) ==
    { n \in wsNotified : /\ n.exchange = e
                         /\ "severity" \in DOMAIN n
                         /\ n["severity"] = "CRITICAL" }

\* C7: once the reconnection attempts of an exchange are exhausted, its feed is in
\* the terminal state FAILED and a critical alert has been emitted.
C7_ExhaustionFailsFeedAndAlerts ==
    \A e \in Exchanges :
        ws[e].log = "Max reconnection attempts reached" =>
            /\ FeedState(e) = "FAILED"
            /\ CriticalAlerts(e) # {}

\* The sockets of an exchange that are open
LiveSockets(e) == { k \in DOMAIN ws[e].sockets : ws[e].sockets[k] = "OPEN" }

\* C36: the close of a socket that disconnect(exchange) closed schedules no
\* automatic reconnection, and every exchange has at most one open socket and at
\* most one running heartbeat timer, whatever the sequence of connects, socket
\* closes, disconnect and reconnect calls.
C36_DisconnectStaysDownOneSocket ==
    /\ [](\A e \in Exchanges :
            Cardinality(LiveSockets(e)) <= 1 /\ ws[e].liveHeartbeats <= 1)
    /\ [][\A e \in Exchanges : \A k \in DOMAIN ws[e].sockets :
            (ws[e].sockets[k] = "CLOSING" /\ ws'[e].sockets[k] = "CLOSED")
            => ws'[e].autoTimers <= ws[e].autoTimers]_vars

----------------------------------------------------------------------------
(* Claims about LiveDataPipeline *)

\* C2: no two signals of one symbol are less than the cooldown interval apart.
\* (The force threshold equals the cooldown interval, so "unless the force
\* threshold has elapsed" excuses no pair that is closer than that.)
C2_SignalsRespectCooldown ==
    \A a \in DOMAIN signals, b \in DOMAIN signals :
        (a # b /\ signals[a].symbol = signals[b].symbol) =>
            \/ Abs(signals[a].timestamp - signals[b].timestamp) >= SignalInterval
            \/ Abs(signals[a].timestamp - signals[b].timestamp) > ForceInterval

\* C10: a processSymbol that found all four conditions false and the time since
\* the symbol's last signal beyond the force threshold has, once it has returned,
\* emitted exactly one signal for the symbol.
C10_ForcedSignalEmittedOnce ==
    \A i \in DOMAIN loops :
        (/\ loops[i].pc = "delay"
         /\ loops[i].available
         /\ ~loops[i].check.volatility /\ ~loops[i].check.technical
         /\ ~loops[i].check.sentiment /\ ~loops[i].check.time
         /\ loops[i].check.timeSinceLastForce > ForceInterval)
        => loops[i].emitted = 1

\* C10 witness: a forced signal has been emitted, 30001 ms or more after the
\* previous signal of the symbol.
C10_Witness ==
    \E i \in DOMAIN loops :
        /\ loops[i].pc = "delay"
        /\ loops[i].check.forced
        /\ ~loops[i].check.time
        /\ loops[i].emitted = 1
        /\ Cardinality(SignalsOf(signals, loops[i].symbol)) = 2


----------------------------------------------------------------------------
(* Claims about MarketDataService *)

\* A subscription that took effect and whose unsubscribe handle was not called
Subscribed(c) == mdCallbacks[c].handle /\ ~mdCallbacks[c].handleCalled

\* C11: subscribe hands the cached snapshot to the callback exactly once when
\* there is one and never otherwise; from then on the callback holds every
\* snapshot stored for its symbol for as long as its unsubscribe handle has not
\* been called, and once the handle was called the callback is handed nothing.
C11_ReplayAtSubscribe ==
    mdResult.op = "subscribe" =>
        LET c == mdResult.callback
            cached == mdCache[mdResult.symbol]
        IN /\ mdCallbacks[c].received = IF cached # NoSnapshot THEN 1 ELSE 0
           /\ mdCallbacks[c].last = cached

C11_DeliveredWhileSubscribed ==
    \A c \in CallbackIds :
        (Subscribed(c) /\ mdResult.op = "fetched" /\ mdResult.symbol = mdCallbacks[c].symbol)
            => mdCallbacks[c].last = mdCache[mdCallbacks[c].symbol]

C11_NothingAfterUnsubscribe ==
    \A c \in CallbackIds :
        mdCallbacks[c].handleCalled => mdCallbacks'[c].received = mdCallbacks[c].received

\* C11 as a whole: the replay at subscribe, the delivery of every later snapshot
\* while subscribed, and nothing after the unsubscribe handle was called.
C11_SubscriptionDeliversUntilUnsubscribed ==
    /\ [](C11_ReplayAtSubscribe /\ C11_DeliveredWhileSubscribed)
    /\ [][C11_NothingAfterUnsubscribe]_vars

FetchFailures == FetchOutcomes \ {"ok"}

\* C12: a request of fetchRealMarketData that fails (no response, a status that
\* is not ok, a body that does not parse or holds no entry for the coin) changes
\* no symbol's cached snapshot, subscribers or polling timer, and hands nothing
\* to any callback: every timer that was alive still is.
C12_FailedFetchStep ==
    mdResult'.op \in FetchFailures =>
        /\ mdCache' = mdCache
        /\ mdSubscribers' = mdSubscribers
        /\ mdIntervals' = mdIntervals
        /\ mdCallbacks' = mdCallbacks
        /\ mdRunning' = mdRunning

\* C12 as a whole: every failed request is such a step.
C12_FailedFetchChangesNothing == [][C12_FailedFetchStep]_vars

C12_Witness ==
    /\ mdResult.op \in FetchFailures
    /\ mdCache[mdResult.symbol] # NoSnapshot
    /\ mdSubscribers[mdResult.symbol] # <<>>
    /\ mdIntervals[mdResult.symbol].live > 0
    /\ \E s \in Symbols : s # mdResult.symbol /\ mdIntervals[s].live > 0

----------------------------------------------------------------------------
(* Claims about the concurrency and the timers of LiveDataPipeline *)

\* C13: whatever the order of startPipeline, stopPipeline, market-data
\* callbacks and timer ticks, at most one processQueue call has not returned,
\* and no two processSymbol calls wait inside generateSignal at the same time.
C13_OneLoopAtATime ==
    /\ Len(loops) <= 1
    /\ \A i, j \in DOMAIN loops :
          (i # j /\ loops[i].pc = "generateSignal") => loops[j].pc # "generateSignal"

\* C20: once stopPipeline has returned the queue is empty and no timer that
\* startPipeline started is alive (polling timers of the feed, the rotation
\* timer, the metrics timer); at any time at most one timer of each kind is.
C20_StopCancelsEveryTimer ==
    /\ ~isRunning =>
          /\ processingQueue = <<>>
          /\ rotationTimers = 0
          /\ metricsTimers = 0
          /\ \A s \in Symbols : mdIntervals[s].live = 0
    /\ rotationTimers <= 1
    /\ metricsTimers <= 1
    /\ \A s \in Symbols : mdIntervals[s].live <= 1

\* C21: while the pipeline is stopped (from a stop to the next start) no signal
\* is stored and no SIGNAL_GENERATED event is emitted, and while the feed is
\* stopped no response of a request is stored or handed to the subscribers.
C21_StoppedStep ==
    /\ (~isRunning /\ ~isRunning') =>
          /\ signals' = signals
          /\ events'.SIGNAL_GENERATED = events.SIGNAL_GENERATED
    /\ (~mdRunning /\ ~mdRunning') => mdUpdateCount' = mdUpdateCount

C21_InFlightResultsDiscarded == [][C21_StoppedStep]_vars

\* C22: every failure of processSymbol or generateSignal is shown to the event
\* listeners: a step that counts an error also emits an ERROR event.
C22_FailureStep == errorCount' > errorCount => events'.ERROR > events.ERROR

ChartFailures == {"elementMissing", "neverReadyNull", "captureThrows", "captureNull"}

\* C23: signal generation does not depend on the chart: when generateSignal
\* resumes without a chart (element missing, content never ready, capture threw
\* or returned null) on a snapshot createTradingSignal can read, the signal is
\* stored as PENDING, SIGNAL_GENERATED is emitted once and processQueue goes on
\* to its delay.
C23_CompletionStep ==
    \A i \in DOMAIN loops :
        (/\ loops[i].pc = "generateSignal"
         /\ i \in DOMAIN loops'
         /\ loops'[i].pc = "delay"
         /\ loops'[i].chart \in ChartFailures
         /\ ~createThrows(loops[i].shape))
        => /\ SignalId(loops[i].symbol, now) \in DOMAIN signals'
           /\ signals'[SignalId(loops[i].symbol, now)].status = "PENDING"
           /\ events'.SIGNAL_GENERATED = events.SIGNAL_GENERATED + 1
           /\ loops'[i].emitted = 1

C23_SignalWithoutChart == [][C23_CompletionStep]_vars

\* C23 witness: a signal was stored and announced although generateSignal got
\* no chart.
C23_Witness ==
    /\ events.SIGNAL_GENERATED >= 1
    /\ \E i \in DOMAIN loops :
          /\ loops[i].pc = "delay"
          /\ loops[i].chart \in ChartFailures
          /\ loops[i].emitted = 1
          /\ SignalsOf(signals, loops[i].symbol) # {}

\* The step in which loop i takes a symbol off the queue
Dequeues(i) ==
    /\ Len(loops') >= Len(loops)
    /\ i \in DOMAIN loops'
    /\ i \notin DOMAIN loops \/ loops'[i].items = loops[i].items + 1

\* C26: symbols are taken off the queue in the order they were put on it, and
\* only when no other item is being processed or delayed: the loop that
\* dequeues takes the head of the queue, and no other processQueue call is alive.
C26_DequeueStep ==
    \A i \in DOMAIN loops' :
        Dequeues(i) =>
            /\ processingQueue # <<>> => loops'[i].symbol = Head(processingQueue)
            /\ DOMAIN loops \subseteq {i}

C26_ProcessedInQueueOrder == [][C26_DequeueStep]_vars

\* C29: EXECUTED and CANCELLED are terminal and only a PENDING signal is
\* executed: no signal leaves EXECUTED or CANCELLED, and every SIGNAL_EXECUTED
\* event belongs to a signal that goes from PENDING to EXECUTED in that step
\* (hence at most one such event per signal).
C29_CommandStep ==
    /\ \A id \in DOMAIN signals :
          signals[id].status \in {"EXECUTED", "CANCELLED"} =>
              signals'[id].status = signals[id].status
    /\ events'.SIGNAL_EXECUTED # events.SIGNAL_EXECUTED =>
          /\ events'.SIGNAL_EXECUTED = events.SIGNAL_EXECUTED + 1
          /\ \E id \in DOMAIN signals :
                signals[id].status = "PENDING" /\ signals'[id].status = "EXECUTED"

C29_TerminalStatuses == [][C29_CommandStep]_vars

\* C30: metrics.activeSignals is the number of signals whose status is PENDING
\* or ACTIVE, and it is never negative.
C30_ActiveSignalsIsRecount ==
    /\ metrics.activeSignals = ActiveCount(signals)
    /\ metrics.activeSignals >= 0

\* The symbol is in the processing queue
Queued(symbol) == \E j \in DOMAIN processingQueue : processingQueue[j] = symbol

\* C38: while the pipeline runs, a symbol that sits in the processing queue with
\* no processQueue loop at work (the symbol rotation timer put it there) is
\* eventually picked up: a loop takes the queue on, or the symbol leaves the
\* queue, without a market data update having to arrive; or the pipeline stops.
C38_QueuedSymbolIsPickedUp ==
    \A symbol \in Symbols :
        (isRunning /\ Queued(symbol) /\ loops = <<>>)
            ~> (~isRunning \/ ~Queued(symbol) \/ loops # <<>>)

====
